---- MODULE Spec2Model ----
(***************************************************************************)
(* Valuation engine of vc-audit: ValuationEngine.run_with_data, the two    *)
(* registered valuation methods (Last Round, Comparables), the numeric     *)
(* utilities they use and the cross-method reconciliation.                 *)
(*                                                                         *)
(* Decimal quantities are exact rationals [n |-> numerator, d |-> denom].  *)
(* The data sets below are chosen so that every Decimal quotient the code  *)
(* forms on them terminates well inside Decimal's 28 digits, hence the     *)
(* rational result is the Decimal result.                                  *)
(*                                                                         *)
(* Optional values are sequences: <<>> is None, <<x>> is the value x.      *)
(***************************************************************************)
EXTENDS Integers, Sequences, FiniteSets, TLC

VARIABLES
    impl,            \* which method package is wired in: "methods" or "valuation"
    config,          \* the ValuationConfig object the engine holds as self.config
    request,         \* the API request being served: entry path and raw company data
    response,        \* the HTTP response of the request, once there is one
    calc,            \* a call of the math utilities: its arguments and what it returned
    limiter,         \* RateLimitMiddleware: its request log, the clock, the last response
    retrier,         \* a call through retry_on_exception: attempts made, waits, how it ended
    store,           \* the database of run_and_save_valuation and the calls in progress
    company_data,    \* the CompanyData handed to run_with_data
    indices,         \* data source: the NASDAQ series the loader serves
    comparables,     \* data source: the comparable set of the company's sector
    clock,           \* what date.today() returns now
    ticks,           \* how many times the clock has advanced during the run
    pc,              \* position of run_with_data
    cur,             \* index (in registration order) of the method being run
    methods,         \* the method instances made by MethodRegistry.create_all
    results,         \* run_with_data's local list `results`
    skipped,         \* run_with_data's local list `skipped`
    sampled,         \* the values date.today() returned to each caller
    outcome,         \* what run_with_data returned or raised
    loader,          \* DataLoader._indices_cache: "unloaded", "loading" or "loaded"
    other,           \* a second invocation on the same engine, while it is not running
    overlapped       \* the two invocations have run interleaved

vars == <<impl, config, request, response, calc, limiter, retrier, store,
          company_data, indices, comparables, clock, ticks, pc, cur,
          methods, results, skipped, sampled, outcome, loader, other, overlapped>>

-----------------------------------------------------------------------------
(* Bounds of the model *)

MaxTicks == 1

-----------------------------------------------------------------------------
(* Optional values *)

None == <<>>
Some(x) == <<x>>
IsNone(o) == Len(o) = 0
IsSome(o) == Len(o) = 1
Get(o) == o[1]

-----------------------------------------------------------------------------
(* decimal.Decimal as exact rationals *)

Abs(i) == IF i < 0 THEN -i ELSE i

RECURSIVE Gcd(_, _)
Gcd(a, b) == IF b = 0 THEN a ELSE Gcd(b, a % b)

\* n/d in lowest terms, d > 0
R(n, d) == LET g == Gcd(Abs(n), d) IN [n |-> n \div g, d |-> d \div g]
FromInt(i) == [n |-> i, d |-> 1]

RAdd(a, b) == R(a.n * b.d + b.n * a.d, a.d * b.d)
RSub(a, b) == R(a.n * b.d - b.n * a.d, a.d * b.d)
RMul(a, b) == R(a.n * b.n, a.d * b.d)
\* a / b for b # 0 (the callers decide what a zero divisor does)
RDiv(a, b) == IF b.n > 0 THEN R(a.n * b.d, a.d * b.n)
                         ELSE R(-(a.n * b.d), a.d * (-b.n))
RLt(a, b) == a.n * b.d < b.n * a.d
RLe(a, b) == a.n * b.d <= b.n * a.d
REq(a, b) == a.n * b.d = b.n * a.d
RIsZero(a) == a.n = 0

\* Decimal.quantize(Decimal("0"), rounding=ROUND_HALF_UP): ties go away from zero
QuantizeHalfUp(q) ==
    IF q.n >= 0 THEN (2 * q.n + q.d) \div (2 * q.d)
                ELSE -((2 * (-q.n) + q.d) \div (2 * q.d))

Pow10(k) == IF k = 0 THEN 1 ELSE IF k = 1 THEN 10 ELSE IF k = 2 THEN 100 ELSE 1000

\* utils/math_utils.py round_decimal(value, places)
round_decimal(value, places) ==
    R(QuantizeHalfUp(RMul(value, FromInt(Pow10(places)))), Pow10(places))

-----------------------------------------------------------------------------
(* datetime.date, for the years 2025..2027 (no leap year among them) *)

Date(y, m, d) == [y |-> y, m |-> m, d |-> d]

DaysInMonth == <<31, 28, 31, 30, 31, 30, 31, 31, 30, 31, 30, 31>>
DaysBefore == <<0, 31, 59, 90, 120, 151, 181, 212, 243, 273, 304, 334>>

\* date.toordinal(), relative to 2025-01-01
Ordinal(dt) == (dt.y - 2025) * 365 + DaysBefore[dt.m] + dt.d

\* (a - b).days
DaysBetween(a, b) == Ordinal(a) - Ordinal(b)

NextDay(dt) ==
    IF dt.d < DaysInMonth[dt.m] THEN Date(dt.y, dt.m, dt.d + 1)
    ELSE IF dt.m < 12 THEN Date(dt.y, dt.m + 1, 1)
    ELSE Date(dt.y + 1, 1, 1)

-----------------------------------------------------------------------------
(* config.py: ValuationConfig (frozen), with its defaults *)

DefaultValuationConfig ==
    [ max_round_age_months         |-> 18,
      stale_round_threshold_months |-> 12,
      default_beta                 |-> R(3, 2),
      min_comparables              |-> 3,
      multiple_percentile          |-> 50,
      high_confidence_spread       |-> R(15, 100),
      medium_confidence_spread     |-> R(30, 100) ]

\* self.config of the engine, which create_all hands to every method: one
\* object, read wherever a tunable is used
ValuationConfig == config

\* attribute assignment on a model that is not frozen
setattr_not_frozen(cfg, name, value) == [cfg EXCEPT ![name] = value]

\* attribute assignment on ValuationConfig, model_config = {"frozen": True}:
\* pydantic raises and the object keeps its value
setattr_frozen(cfg, name, value) == cfg

\* str(Decimal): the text of the exact decimal value
DecimalToStr(x) == [decimal_text |-> x]

\* Decimal(str) of such a text
StrToDecimal(t) == t.decimal_text

DecimalTunables == {"default_beta", "high_confidence_spread", "medium_confidence_spread"}

\* config_snapshot = self.config.model_dump(), every Decimal replaced by its str
config_snapshot(cfg) ==
    [name \in DOMAIN cfg |->
        IF name \in DecimalTunables THEN DecimalToStr(cfg[name]) ELSE cfg[name]]

\* models.py: Confidence, MethodName
HIGH == "high"
MEDIUM == "medium"
LOW == "low"
Confidence == {HIGH, MEDIUM, LOW}

LAST_ROUND == "last_round"
COMPARABLES == "comparables"

\* MethodRegistry._methods after `from src.methods import last_round, comps`:
\* a dict keeps insertion order, so create_all yields Last Round, then Comparables
RegisteredMethods == <<LAST_ROUND, COMPARABLES>>

-----------------------------------------------------------------------------
(* utils/math_utils.py *)

RECURSIVE InsertSorted(_, _)
InsertSorted(x, s) ==
    IF s = <<>> THEN <<x>>
    ELSE IF RLt(x, Head(s)) THEN <<x>> \o s
    ELSE <<Head(s)>> \o InsertSorted(x, Tail(s))

\* sorted(values) on Decimals
RECURSIVE sorted(_)
sorted(values) ==
    IF values = <<>> THEN <<>>
    ELSE InsertSorted(values[Len(values)], sorted(SubSeq(values, 1, Len(values) - 1)))

\* median(values), for non-empty values
median(values) ==
    LET sorted_values == sorted(values)
        n == Len(sorted_values)
        mid == n \div 2
    IN  IF n % 2 = 0
        THEN RDiv(RAdd(sorted_values[mid], sorted_values[mid + 1]), FromInt(2))
        ELSE sorted_values[mid + 1]

\* a percentile that takes its rank over n instead of n - 1
percentile_rank_over_n(values, p) ==
    LET sorted_values == sorted(values)
        n == Len(sorted_values)
        lower_idx == IF (p * n) \div 100 < n - 1 THEN (p * n) \div 100 ELSE n - 1
    IN  sorted_values[lower_idx + 1]

\* percentile(values, p), for non-empty values and 0 <= p <= 100.  rank is a
\* float in the code; for the p used here (25, 50, 75) p/100 and rank are exact.
percentile(values, p) ==
    LET sorted_values == sorted(values)
        n == Len(sorted_values)
        lower_idx == (p * (n - 1)) \div 100
        upper_idx == IF lower_idx + 1 < n - 1 THEN lower_idx + 1 ELSE n - 1
        fraction == R(p * (n - 1) - 100 * lower_idx, 100)
        lower_val == sorted_values[lower_idx + 1]
        upper_val == sorted_values[upper_idx + 1]
    IN  IF n = 1 THEN sorted_values[1]
        ELSE RAdd(lower_val, RMul(fraction, RSub(upper_val, lower_val)))

RECURSIVE SeqSum(_)
SeqSum(s) == IF s = <<>> THEN FromInt(0) ELSE RAdd(Head(s), SeqSum(Tail(s)))

RECURSIVE SeqProduct(_)
SeqProduct(s) == IF s = <<>> THEN FromInt(1) ELSE RMul(Head(s), SeqProduct(Tail(s)))

\* the first element instead of the least
MinOfFirst(s) == s[1]

\* min(...) / max(...) over a non-empty sequence of integers
RECURSIVE MinOf(_)
MinOf(s) == IF Len(s) = 1 THEN s[1]
            ELSE LET r == MinOf(Tail(s)) IN IF s[1] <= r THEN s[1] ELSE r
RECURSIVE MaxOf(_)
MaxOf(s) == IF Len(s) = 1 THEN s[1]
            ELSE LET r == MaxOf(Tail(s)) IN IF s[1] >= r THEN s[1] ELSE r

-----------------------------------------------------------------------------
(* valuation/base.py (and methods/base.py): ValuationMethod *)

\* ValuationMethod.__init__
NewMethod(name) ==
    [ method_name  |-> name,
      audit_steps  |-> <<>>,
      step_counter |-> 0,
      warnings     |-> <<>>,
      check_calls   |-> 0,     \* how often check_prerequisites was entered
      execute_calls |-> 0,     \* how often execute was entered
      skip_reason   |-> None ] \* run()'s local: what check_prerequisites returned

\* a step recorder that numbers the step before counting it
add_step_stale_counter(self, description) ==
    [self EXCEPT !.step_counter = @ + 1,
                 !.audit_steps = Append(@, [step_number |-> self.step_counter,
                                            description |-> description])]

\* ValuationMethod._add_step
add_step(self, description) ==
    [self EXCEPT !.step_counter = @ + 1,
                 !.audit_steps = Append(@, [step_number |-> self.step_counter + 1,
                                            description |-> description])]

\* ValuationMethod._add_warning
add_warning(self, warning) == [self EXCEPT !.warnings = Append(@, warning)]

\* the combined factor of the company-specific adjustments
CombinedFactor(adjustments) == SeqProduct(adjustments)

MethodSkipped(name, reason) == [method |-> name, reason |-> reason]

MethodResult(self, value, confidence) ==
    [ method      |-> self.method_name,
      value       |-> value,
      confidence  |-> confidence,
      audit_trail |-> self.audit_steps,
      warnings    |-> self.warnings ]

-----------------------------------------------------------------------------
(* data/loader.py, database/loader.py: what the loader serves *)

\* a loader that serves an empty series where it should raise
get_index_no_raise(source) ==
    [raised |-> FALSE, value |-> source.points]

\* DataLoader.get_index("NASDAQ"): the cached series sorted by date, or an exception
get_index(source) ==
    [raised |-> source.status = "raise", value |-> source.points]

\* a cache that loses the series once the load is over
ServedOnlyOnFirstLoad(cache, source) ==
    IF cache # "unloaded" THEN [status |-> "raise", points |-> <<>>] ELSE source

\* what get_index finds for "NASDAQ" given the state of the cache: while
\* load_indices of data/loader.py is between `self._indices_cache = {}` and the
\* assignment of the parsed series, the cache is not None and has no "NASDAQ"
\* key, so get_index raises DataNotFoundError
Served(cache, source) ==
    IF cache = "loading" THEN [status |-> "raise", points |-> <<>>] ELSE source

\* DataLoader.load_comparables(sector): the cached set, or an exception
load_comparables(source) ==
    [raised |-> source.status = "raise", value |-> source.multiples]

-----------------------------------------------------------------------------
(* valuation/last_round.py (and methods/last_round.py): LastRoundMethod *)

\* months_old = (today.year - round_date.year) * 12 + (today.month - round_date.month)
MonthsOld(today, round_date) ==
    (today.y - round_date.y) * 12 + (today.m - round_date.m)

\* a round older than stale_round_threshold_months is refused
LastRound_check_prerequisites_stale_blocks(cd, today, source) ==
    IF IsNone(cd.last_round) THEN Some("no_last_round")
    ELSE IF MonthsOld(today, Get(cd.last_round).date)
               > ValuationConfig.stale_round_threshold_months
         THEN Some("too_old")
    ELSE LET index_data == get_index(source) IN
         IF index_data.raised THEN Some("cannot_load_index")
         ELSE IF index_data.value = <<>> THEN Some("no_index_data")
         ELSE None

\* LastRoundMethod.check_prerequisites: None, or the skip reason
LastRound_check_prerequisites(cd, today, source) ==
    IF IsNone(cd.last_round) THEN Some("no_last_round")
    ELSE IF MonthsOld(today, Get(cd.last_round).date) > ValuationConfig.max_round_age_months
         THEN Some("too_old")
    ELSE LET index_data == get_index(source) IN
         IF index_data.raised THEN Some("cannot_load_index")
         ELSE IF index_data.value = <<>> THEN Some("no_index_data")
         ELSE None

\* the later candidate wins a tie
RECURSIVE ClosestLastWins(_, _)
ClosestLastWins(index_data, target_date) ==
    IF Len(index_data) = 1 THEN index_data[1]
    ELSE LET rest == ClosestLastWins(Tail(index_data), target_date)
             x == index_data[1]
         IN  IF Abs(DaysBetween(x.date, target_date)) < Abs(DaysBetween(rest.date, target_date))
             THEN x ELSE rest

\* min(index_data, key=lambda x: abs((x.date - target_date).days)): the first
\* element, in list order, among those of minimal key
RECURSIVE Closest(_, _)
Closest(index_data, target_date) ==
    IF Len(index_data) = 1 THEN index_data[1]
    ELSE LET rest == Closest(Tail(index_data), target_date)
             x == index_data[1]
         IN  IF Abs(DaysBetween(x.date, target_date)) <= Abs(DaysBetween(rest.date, target_date))
             THEN x ELSE rest

\* LastRoundMethod._get_closest_index_value
get_closest_index_value(index_data, target_date) ==
    FromInt(Closest(index_data, target_date).value)

\* the bands with their upper ends left out
LastRound_determine_confidence_strict(months_old) ==
    IF months_old < 6 THEN HIGH
    ELSE IF months_old < ValuationConfig.stale_round_threshold_months THEN MEDIUM
    ELSE LOW

\* LastRoundMethod._determine_confidence
LastRound_determine_confidence(months_old) ==
    IF months_old <= 6 THEN HIGH
    ELSE IF months_old <= ValuationConfig.stale_round_threshold_months THEN MEDIUM
    ELSE LOW

\* the market adjustment 1.0 + beta * market_return, for round_index # 0
MarketAdjustment(round_index, today_index) ==
    LET market_return == RDiv(RSub(today_index, round_index), round_index)
        adjusted_return == RMul(ValuationConfig.default_beta, market_return)
    IN  RAdd(FromInt(1), adjusted_return)

\* the unrounded final value of LastRoundMethod.execute
LastRound_final_value(cd, round_index, today_index) ==
    LET anchor_value == FromInt(Get(cd.last_round).valuation_post)
        market_adjusted_value == RMul(anchor_value, MarketAdjustment(round_index, today_index))
    IN  IF cd.adjustments # <<>>
        THEN RMul(market_adjusted_value, CombinedFactor(cd.adjustments))
        ELSE market_adjusted_value

\* LastRoundMethod.execute: [raised, self, result]; an exception of get_index is
\* not caught here, and the division by round_index raises
\* decimal.DivisionByZero / InvalidOperation when round_index is 0
LastRound_execute(self0, cd, today, source, package) ==
    LET last_round == Get(cd.last_round)
        self1 == add_step(self0, "Starting Point: Last Funding Round")
        months_old == MonthsOld(today, last_round.date)
        self2 == IF months_old > ValuationConfig.stale_round_threshold_months
                 THEN add_warning(self1, [kind |-> "months old", months |-> months_old])
                 ELSE self1
        index_data == get_index(source).value
        round_index == get_closest_index_value(index_data, last_round.date)
        today_index == get_closest_index_value(index_data, today)
    IN  IF get_index(source).raised \/ RIsZero(round_index)
        THEN [raised |-> TRUE, self |-> self2, result |-> None]
        ELSE
        LET self3 == add_step(self2, "Market Adjustment: How Has the Market Moved?")
            final_value == LastRound_final_value(cd, round_index, today_index)
            self4 == add_step(self3, "Company-Specific Adjustments")
            self5 == IF package = "valuation"
                     THEN add_step(self4, "Final Formula Summary")
                     ELSE self4
            confidence == LastRound_determine_confidence(months_old)
        IN  [raised |-> FALSE, self |-> self5,
             result |-> Some(MethodResult(self5, round_decimal(final_value, 0).n, confidence))]

-----------------------------------------------------------------------------
(* valuation/comps.py (and methods/comps.py): ComparablesMethod *)

\* exactly min_comparables companies are not enough
Comparables_check_prerequisites_strict(cd, source) ==
    IF IsNone(cd.revenue_ttm) THEN Some("no_revenue_data")
    ELSE IF Get(cd.revenue_ttm) <= 0 THEN Some("revenue_not_positive")
    ELSE LET comps == load_comparables(source) IN
         IF comps.raised THEN Some("cannot_load_comparables")
         ELSE IF Len(comps.value) <= ValuationConfig.min_comparables
              THEN Some("insufficient_comparables")
         ELSE None

\* ComparablesMethod.check_prerequisites: None, or the skip reason
Comparables_check_prerequisites(cd, source) ==
    IF IsNone(cd.revenue_ttm) THEN Some("no_revenue_data")
    ELSE IF Get(cd.revenue_ttm) <= 0 THEN Some("revenue_not_positive")
    ELSE LET comps == load_comparables(source) IN
         IF comps.raised THEN Some("cannot_load_comparables")
         ELSE IF Len(comps.value) < ValuationConfig.min_comparables
              THEN Some("insufficient_comparables")
         ELSE None

\* ComparablesMethod._select_multiple
select_multiple(multiples, median_multiple) ==
    IF ValuationConfig.multiple_percentile = 50 THEN median_multiple
    ELSE percentile(multiples, ValuationConfig.multiple_percentile)

\* ComparablesMethod._calculate_private_discount
calculate_private_discount(stage) ==
    CASE stage = "seed"     -> R(35, 100)
      [] stage = "series_a" -> R(30, 100)
      [] stage = "series_b" -> R(25, 100)
      [] stage = "series_c" -> R(20, 100)
      [] stage = "growth"   -> R(15, 100)
      [] OTHER              -> R(25, 100)

RECURSIVE SumSquaredDeviations(_, _)
SumSquaredDeviations(s, mean) ==
    IF s = <<>> THEN FromInt(0)
    ELSE RAdd(RMul(RSub(Head(s), mean), RSub(Head(s), mean)),
              SumSquaredDeviations(Tail(s), mean))

\* cv < t, where cv = std_dev / mean if mean > 0 else 1 and std_dev = variance ** 0.5;
\* for mean > 0 and t > 0:  sqrt(variance) / mean < t  iff  variance < t^2 * mean^2
CvBelow(multiples, t) ==
    LET mean == RDiv(SeqSum(multiples), FromInt(Len(multiples)))
        variance == RDiv(SumSquaredDeviations(multiples, mean), FromInt(Len(multiples)))
    IN  IF mean.n > 0
        THEN RLt(variance, RMul(RMul(t, t), RMul(mean, mean)))
        ELSE RLt(FromInt(1), t)

\* a coefficient of variation of 0.5 (up to 0.501) still counts as MEDIUM
Comparables_determine_confidence_closed(multiples, median_multiple) ==
    IF multiples = <<>> \/ RIsZero(median_multiple) THEN LOW
    ELSE IF ~CvBelow(multiples, R(5, 10)) /\ CvBelow(multiples, R(501, 1000)) THEN MEDIUM
    ELSE IF CvBelow(multiples, R(3, 10)) THEN HIGH
    ELSE IF CvBelow(multiples, R(5, 10)) THEN MEDIUM
    ELSE LOW

\* ComparablesMethod._determine_confidence
Comparables_determine_confidence(multiples, median_multiple) ==
    IF multiples = <<>> \/ RIsZero(median_multiple) THEN LOW
    ELSE IF CvBelow(multiples, R(3, 10)) THEN HIGH
    ELSE IF CvBelow(multiples, R(5, 10)) THEN MEDIUM
    ELSE LOW

\* the unrounded final value of ComparablesMethod.execute: methods/comps.py stops
\* at revenue * adjusted_multiple, valuation/comps.py goes on to apply the
\* company-specific adjustments
Comparables_final_value(cd, multiples, package) ==
    LET revenue == FromInt(Get(cd.revenue_ttm))
        median_multiple == median(multiples)
        selected_multiple == select_multiple(multiples, median_multiple)
        discount == calculate_private_discount(cd.stage)
        adjusted_multiple == RMul(selected_multiple, RSub(FromInt(1), discount))
        base_value == RMul(revenue, adjusted_multiple)
    IN  IF package = "valuation" /\ cd.adjustments # <<>>
        THEN RMul(base_value, CombinedFactor(cd.adjustments))
        ELSE base_value

\* ComparablesMethod.execute: [raised, self, result]
Comparables_execute(self0, cd, source, package) ==
    LET self1 == add_step(self0, "Target Company Financial Metrics")
        multiples == load_comparables(source).value
        self2 == add_step(self1, "Comparable Public Companies")
        median_multiple == median(multiples)
        self3 == add_step(self2, "Revenue Multiple Analysis")
        self4 == add_step(self3, "Private Company Discount")
        final_value == Comparables_final_value(cd, multiples, package)
        self5 == IF package = "valuation"
                 THEN add_step(add_step(add_step(self4,
                          "Base Valuation Calculation"),
                          "Company-Specific Adjustments"),
                          "Final Formula Summary")
                 ELSE add_step(self4, "Final Valuation Calculation")
        confidence == Comparables_determine_confidence(multiples, median_multiple)
    IN  [raised |-> FALSE, self |-> self5,
         result |-> Some(MethodResult(self5, round_decimal(final_value, 0).n, confidence))]

-----------------------------------------------------------------------------
(* engine/engine.py: ValuationEngine *)

confidence_order(c) == IF c = HIGH THEN 0 ELSE IF c = MEDIUM THEN 1 ELSE 2

\* an unstable insertion: x goes in front of the elements of equal key
RECURSIVE InsertByConfidenceUnstable(_, _)
InsertByConfidenceUnstable(x, s) ==
    IF s = <<>> THEN <<x>>
    ELSE IF confidence_order(x.confidence) <= confidence_order(Head(s).confidence)
         THEN <<x>> \o s
         ELSE <<Head(s)>> \o InsertByConfidenceUnstable(x, Tail(s))

\* insert x behind every element whose key is not larger: keeps equal keys in order
RECURSIVE InsertByConfidence(_, _)
InsertByConfidence(x, s) ==
    IF s = <<>> THEN <<x>>
    ELSE IF confidence_order(x.confidence) < confidence_order(Head(s).confidence)
         THEN <<x>> \o s
         ELSE <<Head(s)>> \o InsertByConfidence(x, Tail(s))

\* sorted(results, key=lambda r: confidence_order[r.confidence]), a stable sort
RECURSIVE SortedByConfidence(_)
SortedByConfidence(rs) ==
    IF rs = <<>> THEN <<>>
    ELSE InsertByConfidence(rs[Len(rs)], SortedByConfidence(SubSeq(rs, 1, Len(rs) - 1)))

\* primary = sorted_results[0]
Primary(rs) == SortedByConfidence(rs)[1]

ValuesOf(rs) == [i \in 1..Len(rs) |-> rs[i].value]
ConfidencesOf(rs) == {rs[i].confidence : i \in 1..Len(rs)}

\* [m for m, v in values.items() if v == value][0]
FirstMethodWithValue(rs, value) ==
    rs[CHOOSE i \in 1..Len(rs) :
          /\ rs[i].value = value
          /\ \A j \in 1..(i - 1) : rs[j].value # value].method

\* the spread of _compare_methods: 0 when min_value <= 0
CompareSpread(rs) ==
    LET min_value == MinOf(ValuesOf(rs))
        max_value == MaxOf(ValuesOf(rs))
    IN  IF min_value > 0 THEN R(max_value - min_value, min_value) ELSE FromInt(0)

\* ValuationEngine._compare_methods, for len(results) >= 2: the sentences of the
\* analysis and what they state
compare_methods(rs) ==
    LET min_value == MinOf(ValuesOf(rs))
        max_value == MaxOf(ValuesOf(rs))
        spread == CompareSpread(rs)
        band == IF RLt(ValuationConfig.medium_confidence_spread, spread) THEN "high"
                ELSE IF RLt(ValuationConfig.high_confidence_spread, spread) THEN "moderate"
                ELSE "low"
    IN  [ text       |-> <<"Cross-method comparison", "Value range", "Spread", band>>,
          n_methods  |-> Len(rs),
          min_value  |-> min_value,
          min_method |-> FirstMethodWithValue(rs, min_value),
          max_value  |-> max_value,
          max_method |-> FirstMethodWithValue(rs, max_value),
          spread_pct |-> round_decimal(RMul(spread, FromInt(100)), 1),
          band       |-> band ]

\* the spread of _calculate_overall_confidence: 1 when min_val <= 0
OverallSpread(rs) ==
    LET min_val == MinOf(ValuesOf(rs))
        max_val == MaxOf(ValuesOf(rs))
    IN  IF min_val > 0 THEN R(max_val - min_val, min_val) ELSE FromInt(1)

\* the moderate band without its downgrade of all-HIGH results
calculate_overall_confidence_no_downgrade(rs) ==
    IF Len(rs) = 1 THEN rs[1].confidence
    ELSE LET spread == OverallSpread(rs)
             confidences == ConfidencesOf(rs)
         IN  IF RLe(spread, ValuationConfig.medium_confidence_spread)
             THEN (IF HIGH \in confidences THEN HIGH ELSE MEDIUM)
             ELSE LOW

\* ValuationEngine._calculate_overall_confidence
calculate_overall_confidence(rs) ==
    IF Len(rs) = 1 THEN rs[1].confidence
    ELSE LET spread == OverallSpread(rs)
             confidences == ConfidencesOf(rs)
         IN  IF RLe(spread, ValuationConfig.high_confidence_spread)
             THEN (IF HIGH \in confidences THEN HIGH ELSE MEDIUM)
             ELSE IF RLe(spread, ValuationConfig.medium_confidence_spread)
             THEN (IF confidences = {HIGH} THEN MEDIUM
                   ELSE IF LOW \in confidences THEN LOW
                   ELSE MEDIUM)
             ELSE LOW

\* the spread part of ValuationEngine._generate_method_comparison
\* (spread_percent, spread_warning)
SpreadPercent(rs) ==
    IF Len(rs) > 1 /\ MinOf(ValuesOf(rs)) > 0
    THEN Some(round_decimal(
             RMul(R(MaxOf(ValuesOf(rs)) - MinOf(ValuesOf(rs)), MinOf(ValuesOf(rs))),
                  FromInt(100)), 1))
    ELSE None

SpreadWarning(rs) ==
    LET sp == SpreadPercent(rs) IN
    IF IsNone(sp) THEN None
    ELSE IF RLt(RMul(ValuationConfig.medium_confidence_spread, FromInt(100)), Get(sp))
         THEN Some("significant uncertainty")
    ELSE IF RLt(RMul(ValuationConfig.high_confidence_spread, FromInt(100)), Get(sp))
         THEN Some("moderate uncertainty")
    ELSE None

\* ValuationEngine._generate_selection_reason: why the primary was chosen, and
\* the spread sentence
generate_selection_reason(rs, primary) ==
    IF Len(rs) = 1 THEN [why |-> "only one method", spread |-> None]
    ELSE
    LET others == SelectSeq(SortedByConfidence(rs), LAMBDA r : r.method # primary.method)
        sp == SpreadPercent(rs)
    IN  [ why |-> IF \A i \in 1..Len(rs) : rs[i].confidence = primary.confidence
                  THEN "more direct market evidence"
                  ELSE IF primary.confidence # others[1].confidence
                  THEN "higher confidence"
                  ELSE "confidence assessment",
          spread |-> IF IsNone(sp) THEN None
                     ELSE IF RLt(RMul(ValuationConfig.medium_confidence_spread, FromInt(100)), Get(sp))
                          THEN Some("significant valuation uncertainty")
                     ELSE IF RLt(RMul(ValuationConfig.high_confidence_spread, FromInt(100)), Get(sp))
                          THEN Some("moderate uncertainty")
                     ELSE Some("good agreement") ]

\* ValuationEngine._summarize
summarize(rs) ==
    LET primary == Primary(rs) IN
    [ primary_value      |-> primary.value,
      primary_method     |-> primary.method,
      value_range_low    |-> IF Len(rs) > 1 THEN Some(MinOf(ValuesOf(rs))) ELSE None,
      value_range_high   |-> IF Len(rs) > 1 THEN Some(MaxOf(ValuesOf(rs))) ELSE None,
      overall_confidence |-> calculate_overall_confidence(rs),
      supporting         |-> SelectSeq(rs, LAMBDA r : r # primary),
      selection_reason   |-> generate_selection_reason(rs, primary),
      method_comparison  |->
          [ methods |-> [i \in 1..Len(rs) |->
                            [ method     |-> rs[i].method,
                              value      |-> rs[i].value,
                              confidence |-> rs[i].confidence,
                              is_primary |-> rs[i].method = primary.method ]],
            spread_percent |-> SpreadPercent(rs),
            spread_warning |-> SpreadWarning(rs) ] ]

\* skip_reasons = {s.method.value: s.reason for s in skipped}
SkipReasons(sk) ==
    [m \in {sk[i].method : i \in 1..Len(sk)} |->
        sk[CHOOSE i \in 1..Len(sk) :
              /\ sk[i].method = m
              /\ \A j \in (i + 1)..Len(sk) : sk[j].method # m].reason]

\* the ValuationResult run_with_data builds
ValuationResult(cd, today, rs, sk) ==
    [ kind                  |-> "ValuationResult",
      company_id            |-> cd.id,
      valuation_date        |-> today,
      summary               |-> summarize(rs),
      method_results        |-> rs,
      skipped_methods       |-> sk,
      cross_method_analysis |-> IF Len(rs) > 1 THEN Some(compare_methods(rs)) ELSE None,
      config_snapshot       |-> config_snapshot(ValuationConfig) ]

-----------------------------------------------------------------------------
(* The inputs of the run *)

Todays == {Date(2026, 12, 31), Date(2027, 1, 15)}

\* ages in calendar months, seen from the two dates above: 0/1, 6/7, 12/13, 18/19, 19/20
RoundDates == {Date(2026, 12, 1), Date(2026, 6, 30), Date(2025, 12, 15),
               Date(2025, 6, 30), Date(2025, 5, 31)}

PostMoneyValues == {16, 40}

LastRounds ==
    {None} \cup {Some([date |-> rd, valuation_post |-> v]) :
                    rd \in RoundDates, v \in PostMoneyValues}

\* Financials.revenue_ttm: absent, or >= 0 (validate_positive rejects v < 0)
Revenues == {None, Some(0), Some(10)}

\* Adjustment.factor lies in (0, 10]
AdjustmentLists == {<<>>, <<R(1, 2)>>, <<R(6, 5), R(3, 2)>>}

Stages == {"seed", "growth"}

Point(dt, v) == [date |-> dt, value |-> v]

\* what the loader serves for "NASDAQ": an exception, or a list sorted by date
IndexSources ==
    { [status |-> "raise", points |-> <<>>],
      [status |-> "ok", points |-> <<>>],
      \* 2026-06-30 lies midway between two points, 2026-12-31 too
      [status |-> "ok", points |->
          << Point(Date(2025, 6, 1), 100), Point(Date(2025, 12, 15), 200),
             Point(Date(2026, 6, 29), 100), Point(Date(2026, 7, 1), 200),
             Point(Date(2026, 12, 1), 200), Point(Date(2026, 12, 30), 250),
             Point(Date(2027, 1, 1), 150) >>],
      \* a fall by three quarters
      [status |-> "ok", points |->
          << Point(Date(2025, 1, 1), 200), Point(Date(2026, 12, 31), 50) >>],
      \* a series that starts at 0
      [status |-> "ok", points |->
          << Point(Date(2025, 1, 1), 0), Point(Date(2026, 12, 31), 100) >>] }

Multiples(s) == [i \in 1..Len(s) |-> FromInt(s[i])]

\* what the loader serves for the company's sector: an exception, or the
\* EV/revenue multiples of the comparable companies
ComparableSources ==
    { [status |-> "raise", multiples |-> <<>>],
      [status |-> "ok", multiples |-> Multiples(<<4, 6>>)],
      [status |-> "ok", multiples |-> Multiples(<<4, 6, 5>>)],
      [status |-> "ok", multiples |-> Multiples(<<3, 5, 8>>)],
      [status |-> "ok", multiples |-> Multiples(<<2, 8, 15, 3>>)],
      [status |-> "ok", multiples |-> Multiples(<<0, 0, 0>>)],
      \* a coefficient of variation of exactly 0.5
      [status |-> "ok", multiples |-> Multiples(<<1, 1, 3, 3>>)],
      \* peers of negative enterprise value: ev_revenue_multiple is not validated
      [status |-> "ok", multiples |-> Multiples(<<-4, -6, -5>>)] }

Packages == {"methods", "valuation"}

NoSamples == [check |-> None, execute |-> None, engine |-> None]

-----------------------------------------------------------------------------
(* The state machine: one run_with_data call, with the clock running *)

Init ==
    /\ impl \in Packages
    /\ config = DefaultValuationConfig
    /\ calc = None
    /\ limiter = None
    /\ retrier = None
    /\ store = None
    /\ request = None
    /\ response = None
    /\ clock \in Todays
    /\ \E lr \in LastRounds, rev \in Revenues, adj \in AdjustmentLists, st \in Stages :
          /\ IsSome(lr) => DaysBetween(Get(lr).date, clock) <= 0
          /\ company_data = [ id |-> "c1", last_round |-> lr, revenue_ttm |-> rev,
                              stage |-> st, adjustments |-> adj ]
    /\ indices \in IndexSources
    /\ comparables \in ComparableSources
    /\ ticks = 0
    /\ pc = "start"
    /\ cur = 0
    /\ methods = <<>>
    /\ results = <<>>
    /\ skipped = <<>>
    /\ sampled = NoSamples
    /\ outcome = [kind |-> "none"]
    /\ loader = "unloaded"
    /\ other = None
    /\ overlapped = FALSE

\* the loop leaves out the last method
AdvanceOffByOne ==
    IF cur < Len(methods) - 1
    THEN cur' = cur + 1 /\ pc' = "check"
    ELSE cur' = cur /\ pc' = "reconcile"

\* the loop runs the same method again
AdvanceRetry ==
    IF methods[cur].check_calls + methods[cur].execute_calls < 2
    THEN cur' = cur /\ pc' = "check"
    ELSE IF cur < Len(methods)
         THEN cur' = cur + 1 /\ pc' = "check"
         ELSE cur' = cur /\ pc' = "reconcile"

\* for method in methods: ... the step to the next method, or past the loop
Advance ==
    IF cur < Len(methods)
    THEN cur' = cur + 1 /\ pc' = "check"
    ELSE cur' = cur /\ pc' = "reconcile"

\* run_with_data, up to the loop: MethodRegistry.create_all
CreateAll ==
    /\ pc = "start"
    /\ methods' = [i \in 1..Len(RegisteredMethods) |-> NewMethod(RegisteredMethods[i])]
    /\ results' = <<>>
    /\ skipped' = <<>>
    /\ cur' = 1
    /\ pc' = "check"
    /\ UNCHANGED <<calc, limiter, retrier, store, impl, config, request, response, company_data, indices, comparables, clock, ticks, sampled, outcome,
                   loader, other, overlapped>>

\* what check_prerequisites of the current method returns
SkipReason(self) ==
    IF self.method_name = LAST_ROUND
    THEN LastRound_check_prerequisites(company_data, clock, Served(loader, indices))
    ELSE Comparables_check_prerequisites(company_data, comparables)

\* check_prerequisites of this method gets as far as get_index, which finds the
\* cache unloaded and a series to load
LoadsIndex(self) ==
    /\ self.method_name = LAST_ROUND
    /\ IsSome(company_data.last_round)
    /\ MonthsOld(clock, Get(company_data.last_round).date)
          <= ValuationConfig.max_round_age_months
    /\ loader = "unloaded"
    /\ indices.status = "ok"

\* ValuationMethod.run, first half: check_prerequisites, and the MethodSkipped
\* the engine files under `skipped`
CheckPrerequisites ==
    /\ pc = "check"
    /\ LET self == methods[cur]
           skip_reason == SkipReason(self)
       IN  /\ methods' = [methods EXCEPT ![cur].check_calls = @ + 1,
                                         ![cur].skip_reason = skip_reason]
           /\ sampled' = IF self.method_name = LAST_ROUND /\ IsSome(company_data.last_round)
                         THEN [sampled EXCEPT !.check = Some(clock)]
                         ELSE sampled
           /\ IF IsSome(skip_reason)
              THEN /\ skipped' = Append(skipped, MethodSkipped(self.method_name, Get(skip_reason)))
                   /\ Advance
              ELSE /\ skipped' = skipped
                   /\ pc' = "execute"
                   /\ cur' = cur
    /\ loader' = IF LoadsIndex(methods[cur]) THEN "loaded" ELSE loader
    /\ UNCHANGED <<calc, limiter, retrier, store, impl, config, request, response, company_data, indices, comparables, clock, ticks, results, outcome,
                   other, overlapped>>

\* what execute of the current method does
ExecuteOutcome(self) ==
    IF self.method_name = LAST_ROUND
    THEN LastRound_execute(self, company_data, clock, Served(loader, indices), impl)
    ELSE Comparables_execute(self, company_data, comparables, impl)

\* ValuationMethod.run, second half: execute; the engine files the MethodResult
\* under `results`, an exception leaves run_with_data
Execute ==
    /\ pc = "execute"
    /\ LET self == [methods[cur] EXCEPT !.execute_calls = @ + 1]
           out == ExecuteOutcome(self)
       IN  /\ methods' = [methods EXCEPT ![cur] = out.self]
           /\ sampled' = IF self.method_name = LAST_ROUND
                         THEN [sampled EXCEPT !.execute = Some(clock)]
                         ELSE sampled
           /\ IF out.raised
              THEN /\ pc' = "done"
                   /\ cur' = cur
                   /\ results' = results
                   /\ outcome' = [kind |-> "exception", in_method |-> self.method_name]
              ELSE /\ results' = Append(results, Get(out.result))
                   /\ outcome' = outcome
                   /\ Advance
    /\ UNCHANGED <<calc, limiter, retrier, store, impl, config, request, response, company_data, indices, comparables, clock, ticks, skipped,
                   loader, other, overlapped>>

\* raises unless every registered method executed
NoValidMethodsUnlessAll(rs) == Len(rs) < Len(RegisteredMethods)

\* if not results: raise NoValidMethodsError
NoValidMethods(rs) == rs = <<>>

\* run_with_data after the loop: NoValidMethodsError, or the ValuationResult
Reconcile ==
    /\ pc = "reconcile"
    /\ pc' = "done"
    /\ IF NoValidMethods(results)
       THEN /\ outcome' = [ kind |-> "NoValidMethodsError",
                            company_id |-> company_data.id,
                            skip_reasons |-> SkipReasons(skipped) ]
            /\ sampled' = sampled
       ELSE /\ outcome' = ValuationResult(company_data, clock, results, skipped)
            /\ sampled' = [sampled EXCEPT !.engine = Some(clock)]
    /\ UNCHANGED <<calc, limiter, retrier, store, impl, config, request, response, company_data, indices, comparables, clock, ticks, cur,
                   methods, results, skipped, loader, other, overlapped>>

\* midnight passes while the run is in progress
Tick ==
    /\ pc \in {"check", "execute", "reconcile"}
    /\ ticks < MaxTicks
    /\ ticks' = ticks + 1
    /\ clock' = NextDay(clock)
    /\ UNCHANGED <<calc, limiter, retrier, store, impl, config, request, response, company_data, indices, comparables, pc, cur, methods,
                   results, skipped, sampled, outcome, loader, other, overlapped>>

\* the attribute assignments tried on the engine's config while a run is going
ConfigWrites ==
    << [name |-> "max_round_age_months", value |-> 6],
       [name |-> "min_comparables", value |-> 5],
       [name |-> "default_beta", value |-> R(1, 1)],
       [name |-> "medium_confidence_spread", value |-> R(1, 100)] >>

\* some holder of the engine assigns to a field of engine.config during the run
SetConfigAttr ==
    /\ pc \in {"check", "execute", "reconcile"}
    /\ \E k \in 1..Len(ConfigWrites) :
          config' = setattr_frozen(config, ConfigWrites[k].name, ConfigWrites[k].value)
    /\ UNCHANGED <<calc, limiter, retrier, store, impl, request, response, company_data, indices, comparables, clock,
                   ticks, pc, cur, methods, results, skipped, sampled, outcome, loader,
                   other, overlapped>>

Next == CreateAll \/ CheckPrerequisites \/ Execute \/ Reconcile \/ Tick \/ SetConfigAttr

Spec == Init /\ [][Next]_vars

-----------------------------------------------------------------------------
(* Two run_with_data invocations on one engine: they share the registry, the
   config and the loader; each has its own CompanyData and its own locals.
   The variables of the run describe the invocation that is running, `other`
   holds the one that is not. *)

TwoRunCompanies ==
    { [ id |-> "c1", last_round |-> Some([date |-> Date(2026, 6, 30), valuation_post |-> 16]),
        revenue_ttm |-> Some(10), stage |-> "seed", adjustments |-> <<>> ],
      [ id |-> "c1", last_round |-> None,
        revenue_ttm |-> Some(10), stage |-> "growth", adjustments |-> <<R(1, 2)>> ],
      [ id |-> "c1", last_round |-> Some([date |-> Date(2025, 12, 15), valuation_post |-> 40]),
        revenue_ttm |-> None, stage |-> "seed", adjustments |-> <<>> ] }

\* the locals of an invocation that has not started
NewInvocation(cd) ==
    [ company_data |-> cd, pc |-> "start", cur |-> 0, methods |-> <<>>,
      results |-> <<>>, skipped |-> <<>>, sampled |-> NoSamples,
      outcome |-> [kind |-> "none"] ]

\* the loop of run_with_data over the methods from position k on, with no
\* other invocation on the engine: the loader serves what the source holds
RECURSIVE RunMethodsAlone(_, _, _, _)
RunMethodsAlone(k, cd, rs, sk) ==
    IF k > Len(RegisteredMethods)
    THEN [raised |-> FALSE, in_method |-> "", results |-> rs, skipped |-> sk]
    ELSE LET name == RegisteredMethods[k]
             skip_reason == IF name = LAST_ROUND
                            THEN LastRound_check_prerequisites(cd, clock, indices)
                            ELSE Comparables_check_prerequisites(cd, comparables)
         IN  IF IsSome(skip_reason)
             THEN RunMethodsAlone(k + 1, cd, rs,
                                  Append(sk, MethodSkipped(name, Get(skip_reason))))
             ELSE LET self == [NewMethod(name) EXCEPT !.check_calls = 1,
                                                      !.execute_calls = 1]
                      out == IF name = LAST_ROUND
                             THEN LastRound_execute(self, cd, clock, indices, impl)
                             ELSE Comparables_execute(self, cd, comparables, impl)
                  IN  IF out.raised
                      THEN [raised |-> TRUE, in_method |-> name,
                            results |-> rs, skipped |-> sk]
                      ELSE RunMethodsAlone(k + 1, cd, Append(rs, Get(out.result)), sk)

\* what run_with_data(cd) returns or raises when it runs alone
RunAlone(cd) ==
    LET run == RunMethodsAlone(1, cd, <<>>, <<>>) IN
    IF run.raised
    THEN [kind |-> "exception", in_method |-> run.in_method]
    ELSE IF NoValidMethods(run.results)
         THEN [ kind |-> "NoValidMethodsError",
                company_id |-> cd.id,
                skip_reasons |-> SkipReasons(run.skipped) ]
         ELSE ValuationResult(cd, clock, run.results, run.skipped)

InitTwoRuns ==
    /\ impl \in Packages
    /\ config = DefaultValuationConfig
    /\ calc = None
    /\ limiter = None
    /\ retrier = None
    /\ store = None
    /\ request = None
    /\ response = None
    /\ clock = Date(2026, 12, 31)
    /\ ticks = 0
    /\ indices \in IndexSources
    /\ comparables \in ComparableSources
    /\ loader = "unloaded"
    /\ overlapped = FALSE
    /\ \E cd1, cd2 \in TwoRunCompanies :
          /\ company_data = cd1
          /\ other = Some(NewInvocation(cd2))
    /\ pc = "start"
    /\ cur = 0
    /\ methods = <<>>
    /\ results = <<>>
    /\ skipped = <<>>
    /\ sampled = NoSamples
    /\ outcome = [kind |-> "none"]

\* data/loader.py load_indices, first part: the cache is None, the file is
\* read and `self._indices_cache = {}` is executed
BeginLoadIndices ==
    /\ pc = "check"
    /\ impl = "methods"
    /\ LoadsIndex(methods[cur])
    /\ loader' = "loading"
    /\ pc' = "loading"
    /\ UNCHANGED <<calc, limiter, retrier, store, impl, config, request, response, company_data, indices, comparables, clock, ticks, cur, methods,
                   results, skipped, sampled, outcome, other, overlapped>>

\* data/loader.py load_indices, second part: the parsed series is assigned to
\* its key; get_index goes on with the filled cache
FinishLoadIndices ==
    /\ pc = "loading"
    /\ loader' = "loaded"
    /\ pc' = "check"
    /\ UNCHANGED <<calc, limiter, retrier, store, impl, config, request, response, company_data, indices, comparables, clock, ticks, cur, methods,
                   results, skipped, sampled, outcome, other, overlapped>>

\* the interpreter passes control to the other invocation's thread
Switch ==
    /\ IsSome(other)
    /\ Get(other).pc # "done"
    /\ other' = Some([ company_data |-> company_data, pc |-> pc, cur |-> cur,
                       methods |-> methods, results |-> results, skipped |-> skipped,
                       sampled |-> sampled, outcome |-> outcome ])
    /\ company_data' = Get(other).company_data
    /\ pc' = Get(other).pc
    /\ cur' = Get(other).cur
    /\ methods' = Get(other).methods
    /\ results' = Get(other).results
    /\ skipped' = Get(other).skipped
    /\ sampled' = Get(other).sampled
    /\ outcome' = Get(other).outcome
    /\ overlapped' = (overlapped \/ pc \notin {"start", "done"})
    /\ UNCHANGED <<calc, limiter, retrier, store, impl, config, request, response, indices, comparables, clock, ticks, loader>>

NextTwoRuns ==
    \/ CreateAll \/ CheckPrerequisites \/ Execute \/ Reconcile
    \/ BeginLoadIndices \/ FinishLoadIndices \/ Switch

SpecTwoRuns == InitTwoRuns /\ [][NextTwoRuns]_vars

-----------------------------------------------------------------------------
(* models.py: the validators of the company models; api/routes.py: the entry
   paths that construct a CompanyData and hand it to the engine *)

RAbs(x) == R(Abs(x.n), x.d)

\* Financials.validate_positive(revenue_ttm): TRUE when the value is accepted
Financials_validate_positive(v) == IsNone(v) \/ ~RLt(Get(v), FromInt(0))

\* LastRound.validate_positive: TRUE when the value is accepted
LastRound_validate_positive(v) == RLt(FromInt(0), v)

\* LastRound.validate_date: TRUE when the date is accepted
LastRound_validate_date(v, today) == DaysBetween(v, today) <= 0

\* a post-money check that also refuses a difference of exactly the tolerance
LastRound_validate_post_money_closed(pre, post, raised) ==
    RLt(RAbs(RSub(post, RAdd(pre, raised))), R(1, 100))

\* LastRound.validate_post_money: TRUE when the model is accepted
LastRound_validate_post_money(pre, post, raised) ==
    ~RLt(R(1, 100), RAbs(RSub(post, RAdd(pre, raised))))

\* LastRound(**data): the field validators, then (only if all of them passed)
\* the model validator; the fields are stored as supplied
LastRound_construct(data, today) ==
    LET fields_ok == /\ LastRound_validate_positive(data.valuation_pre)
                     /\ LastRound_validate_positive(data.valuation_post)
                     /\ LastRound_validate_positive(data.amount_raised)
                     /\ LastRound_validate_date(data.date, today)
    IN  [ ok    |-> fields_ok /\ LastRound_validate_post_money(
                                    data.valuation_pre, data.valuation_post, data.amount_raised),
          value |-> data ]

\* a factor check that refuses 10
Adjustment_validate_factor_open(v) == RLt(FromInt(0), v) /\ RLt(v, FromInt(10))

\* Adjustment.validate_factor: TRUE when the factor is accepted
Adjustment_validate_factor(v) == RLt(FromInt(0), v) /\ ~RLt(FromInt(10), v)

\* the whole-number amounts the methods compute with
Whole(x) == x.n

\* CompanyData.model_validate(data): the nested models are validated; the
\* errors name the parts that failed
CompanyData_model_validate(data, today) ==
    LET last_round_ok == IsNone(data.last_round)
                            \/ LastRound_construct(Get(data.last_round), today).ok
        adjustments_ok == \A i \in 1..Len(data.adjustments) :
                              Adjustment_validate_factor(data.adjustments[i])
        financials_ok == Financials_validate_positive(data.revenue_ttm)
        errors == (IF last_round_ok THEN {} ELSE {"last_round"})
                  \cup (IF adjustments_ok THEN {} ELSE {"adjustments"})
                  \cup (IF financials_ok THEN {} ELSE {"financials"})
    IN  [ ok     |-> errors = {},
          errors |-> errors,
          value  |->
            [ id          |-> "c1",
              last_round  |-> IF IsNone(data.last_round) THEN None
                              ELSE LET lr == LastRound_construct(Get(data.last_round),
                                                                 today).value
                                   IN  Some([ date           |-> lr.date,
                                              valuation_post |-> Whole(lr.valuation_post),
                                              valuation_pre  |-> lr.valuation_pre,
                                              amount_raised  |-> lr.amount_raised ]),
              revenue_ttm |-> IF IsNone(data.revenue_ttm) THEN None
                              ELSE Some(Whole(Get(data.revenue_ttm))),
              stage       |-> data.stage,
              adjustments |-> data.adjustments ] ]

\* the entry paths: POST /valuations/custom (the CompanyData is the request
\* body), POST /valuations (engine.run(company_id)), POST /valuations/batch
EntryPaths == {"custom", "by_id", "batch"}

\* what the caller gets when the company data fails validation
\*   custom: FastAPI validates the body before the endpoint runs: 422
\*   by_id:  data/loader.py raises DataValidationError, a ValuationError that
\*           run_valuation turns into 400; database/loader.py builds the models
\*           outside any try, the pydantic ValidationError is not a
\*           ValuationError and leaves the endpoint: 500
\*   batch:  the ValuationError is put into the result list of a 200 response;
\*           the pydantic ValidationError leaves the endpoint: 500
ValidationFailureStatus(path, package) ==
    CASE path = "custom" -> 422
      [] path = "by_id"  -> IF package = "methods" THEN 400 ELSE 500
      [] OTHER           -> IF package = "methods" THEN 200 ELSE 500

\* what the caller gets for the way run_with_data ended
OutcomeStatus(path, o) ==
    CASE o.kind = "ValuationResult"     -> 200
      [] o.kind = "NoValidMethodsError" -> IF path = "batch" THEN 200 ELSE 422
      [] OTHER                          -> 500

RequestPreMoney ==
    { R(12, 1), R(1199, 100), R(1201, 100), R(1198, 100), R(1202, 100), R(13, 1), R(-4, 1) }

RequestLastRounds ==
    {None}
    \cup { Some([ date |-> Date(2026, 6, 30), valuation_pre |-> pre,
                  valuation_post |-> FromInt(16), amount_raised |-> FromInt(raised) ]) :
              pre \in RequestPreMoney, raised \in {4, 20} }
    \cup { Some([ date |-> Date(2027, 1, 1), valuation_pre |-> FromInt(12),
                  valuation_post |-> FromInt(16), amount_raised |-> FromInt(4) ]) }

RequestAdjustments ==
    { <<>>, <<R(1, 2)>>, <<R(10, 1)>>, <<R(1001, 100)>>, <<R(0, 1)>>, <<R(-1, 1)>>,
      <<R(10, 1), R(1, 100)>>, <<R(1, 2), R(11, 1)>> }

RequestRevenues == {None, Some(FromInt(10)), Some(FromInt(0)), Some(FromInt(-1))}

NoCompany == [id |-> ""]

InitRequest ==
    /\ impl \in Packages
    /\ config = DefaultValuationConfig
    /\ calc = None
    /\ limiter = None
    /\ retrier = None
    /\ store = None
    /\ clock = Date(2026, 12, 31)
    /\ ticks = 0
    /\ \E path \in EntryPaths, lr \in RequestLastRounds, adj \in RequestAdjustments,
          rev \in RequestRevenues :
          request = Some([ path |-> path,
                           data |-> [ last_round |-> lr, revenue_ttm |-> rev,
                                      stage |-> "seed", adjustments |-> adj ] ])
    /\ response = None
    /\ company_data = NoCompany
    /\ indices = [ status |-> "ok",
                   points |-> << Point(Date(2026, 6, 30), 100), Point(Date(2026, 12, 31), 110) >> ]
    /\ comparables = [status |-> "ok", multiples |-> Multiples(<<4, 6, 5>>)]
    /\ loader = "unloaded"
    /\ other = None
    /\ overlapped = FALSE
    /\ pc = "request"
    /\ cur = 0
    /\ methods = <<>>
    /\ results = <<>>
    /\ skipped = <<>>
    /\ sampled = NoSamples
    /\ outcome = [kind |-> "none"]

\* the CompanyData is constructed: from the request body, or by load_company
ConstructCompanyData ==
    /\ pc = "request"
    /\ LET v == CompanyData_model_validate(Get(request).data, clock) IN
       IF v.ok
       THEN /\ company_data' = v.value
            /\ pc' = "start"
            /\ response' = response
       ELSE /\ company_data' = company_data
            /\ pc' = "responded"
            /\ response' = Some([ status |-> ValidationFailureStatus(Get(request).path, impl),
                                  validation_errors |-> v.errors ])
    /\ UNCHANGED <<calc, limiter, retrier, store, impl, config, request, indices, comparables, clock, ticks, cur, methods,
                   results, skipped, sampled, outcome, loader, other, overlapped>>

\* the endpoint returns the result or turns the exception into a response
Respond ==
    /\ pc = "done"
    /\ IsSome(request)
    /\ pc' = "responded"
    /\ response' = Some([ status |-> OutcomeStatus(Get(request).path, outcome),
                          validation_errors |-> {} ])
    /\ UNCHANGED <<calc, limiter, retrier, store, impl, config, request, company_data, indices, comparables, clock, ticks,
                   cur, methods, results, skipped, sampled, outcome, loader, other,
                   overlapped>>

NextRequest ==
    \/ ConstructCompanyData \/ CreateAll \/ CheckPrerequisites \/ Execute \/ Reconcile
    \/ Respond

SpecRequest == InitRequest /\ [][NextRequest]_vars

-----------------------------------------------------------------------------
(* The utilities and services beside the engine are modelled with the engine
   at rest *)

\* no valuation is running
EngineAtRest ==
    /\ impl = "methods"
    /\ config = DefaultValuationConfig
    /\ request = None
    /\ response = None
    /\ company_data = NoCompany
    /\ indices = [status |-> "raise", points |-> <<>>]
    /\ comparables = [status |-> "raise", multiples |-> <<>>]
    /\ clock = Date(2026, 12, 31)
    /\ ticks = 0
    /\ loader = "unloaded"
    /\ other = None
    /\ overlapped = FALSE
    /\ pc = "rest"
    /\ cur = 0
    /\ methods = <<>>
    /\ results = <<>>
    /\ skipped = <<>>
    /\ sampled = NoSamples
    /\ outcome = [kind |-> "none"]

EngineUnchanged ==
    UNCHANGED <<impl, config, request, response, company_data, indices, comparables, clock,
                ticks, loader, other, overlapped, pc, cur, methods, results, skipped,
                sampled, outcome>>

-----------------------------------------------------------------------------
(* utils/math_utils.py: median and percentile applied to a sequence *)

MaxValues == 4

CalcDecimals == {FromInt(0), FromInt(1), FromInt(5), R(5, 2), FromInt(-3)}

CalcPercentiles == {25, 50, 75}

InitMath ==
    /\ EngineAtRest
    /\ limiter = None
    /\ retrier = None
    /\ store = None
    /\ \E n \in 1..MaxValues, p \in CalcPercentiles :
          \E values \in [1..n -> CalcDecimals] :
              calc = Some([ values |-> values, p |-> p,
                            median |-> None, percentile |-> None ])

\* median(values) is called
CallMedian ==
    /\ IsSome(calc)
    /\ IsNone(Get(calc).median)
    /\ calc' = Some([Get(calc) EXCEPT !.median = Some(median(Get(calc).values))])
    /\ EngineUnchanged
    /\ UNCHANGED <<limiter, retrier, store>>

\* percentile(values, p) is called
CallPercentile ==
    /\ IsSome(calc)
    /\ IsNone(Get(calc).percentile)
    /\ calc' = Some([Get(calc) EXCEPT
                        !.percentile = Some(percentile(Get(calc).values, Get(calc).p))])
    /\ EngineUnchanged
    /\ UNCHANGED <<limiter, retrier, store>>

NextMath == CallMedian \/ CallPercentile

SpecMath == InitMath /\ [][NextMath]_vars

-----------------------------------------------------------------------------
(* middleware/rate_limit.py: RateLimitMiddleware.  time.time() is read in whole
   seconds; the settings are scaled down *)

rate_limit_requests == 2
rate_limit_window_seconds == 2
MaxTime == 4
MaxArrivals == 5

ClientIps == {"10.0.0.1", "unknown"}
Paths == {"/api/health", "/api/valuations"}

\* a pruning that keeps the request made exactly one window ago
prune_closed(client_requests, window_start) ==
    SelectSeq(client_requests, LAMBDA ts : ts >= window_start)

\* client_requests[:] = [ts for ts in client_requests if ts > window_start]
prune(client_requests, window_start) ==
    SelectSeq(client_requests, LAMBDA ts : ts > window_start)

InitLimiter ==
    /\ EngineAtRest
    /\ calc = None
    /\ retrier = None
    /\ store = None
    /\ limiter = Some([ requests  |-> [ip \in ClientIps |-> <<>>],
                        now       |-> 0,
                        let_through |-> <<>>,  \* every rate-limited request passed on, in order
                        in_flight |-> 0,       \* dispatches waiting in call_next
                        arrivals  |-> 0,
                        last      |-> None ])

\* dispatch(request, call_next) up to its first await: the path test, the
\* pruning, the limit test and the append run without yielding
Dispatch ==
    /\ IsSome(limiter)
    /\ Get(limiter).arrivals < MaxArrivals
    /\ \E client_ip \in ClientIps, path \in Paths :
          LET self == Get(limiter)
              now == self.now
              window_start == now - rate_limit_window_seconds
              client_requests == prune(self.requests[client_ip], window_start)
              decision(status) == Some([ client_ip |-> client_ip, path |-> path, at |-> now,
                                         status |-> status, requests_before |-> self.requests,
                                         let_through_before |-> self.let_through ])
          IN  IF path = "/api/health"
              THEN limiter' = Some([self EXCEPT !.arrivals = @ + 1,
                                                !.in_flight = @ + 1,
                                                !.last = decision(200)])
              ELSE IF Len(client_requests) >= rate_limit_requests
              THEN limiter' = Some([self EXCEPT !.arrivals = @ + 1,
                                                !.requests[client_ip] = client_requests,
                                                !.last = decision(429)])
              ELSE limiter' = Some([self EXCEPT !.arrivals = @ + 1,
                                                !.requests[client_ip] =
                                                    Append(client_requests, now),
                                                !.let_through =
                                                    Append(@, [client_ip |-> client_ip,
                                                               at |-> now]),
                                                !.in_flight = @ + 1,
                                                !.last = decision(200)])
    /\ EngineUnchanged
    /\ UNCHANGED <<calc, retrier, store>>

\* response = await call_next(request) returns; the headers are added
CallNextReturns ==
    /\ IsSome(limiter)
    /\ Get(limiter).in_flight > 0
    /\ limiter' = Some([Get(limiter) EXCEPT !.in_flight = @ - 1])
    /\ EngineUnchanged
    /\ UNCHANGED <<calc, retrier, store>>

\* a second passes
TimePasses ==
    /\ IsSome(limiter)
    /\ Get(limiter).now < MaxTime
    /\ limiter' = Some([Get(limiter) EXCEPT !.now = @ + 1])
    /\ EngineUnchanged
    /\ UNCHANGED <<calc, retrier, store>>

NextLimiter == Dispatch \/ CallNextReturns \/ TimePasses

SpecLimiter == InitLimiter /\ [][NextLimiter]_vars

-----------------------------------------------------------------------------
(* utils/retry.py: retry_on_exception and async_retry_on_exception.  The
   wrapped function's behaviour is chosen at each invocation; the value it
   returns and the exception it raises are named by the invocation's number *)

MaxAttempts == 3

retry_max_attempts == 3
retry_base_delay == R(1, 10)
retry_max_delay == R(5, 1)

Wrappers == {"retry_on_exception", "async_retry_on_exception"}
FuncOutcomes == {"returns", "raises_listed", "raises_unlisted"}

MaxAttemptsArgs == {None} \cup {Some(k) : k \in -1..MaxAttempts}
BaseDelayArgs == {None, Some(R(0, 1)), Some(R(1, 100)), Some(R(1, 1))}
MaxDelayArgs == {None, Some(R(0, 1)), Some(R(3, 2))}

\* max_attempts or settings.retry_max_attempts: a given 0 counts as not given
IntOrDefault(arg, default) ==
    IF IsSome(arg) /\ Get(arg) # 0 THEN Get(arg) ELSE default

\* base_delay or settings.retry_base_delay: a given 0.0 counts as not given
FloatOrDefault(arg, default) ==
    IF IsSome(arg) /\ Get(arg).n # 0 THEN Get(arg) ELSE default

\* min(delay * (2**attempt), max_d)
wait_time(delay, attempt, max_d) ==
    LET backoff == RMul(delay, R(2^attempt, 1))
    IN  IF RLt(max_d, backoff) THEN max_d ELSE backoff

InitRetry ==
    /\ EngineAtRest
    /\ calc = None
    /\ limiter = None
    /\ store = None
    /\ \E wrapper \in Wrappers, max_attempts \in MaxAttemptsArgs,
          base_delay \in BaseDelayArgs, max_delay \in MaxDelayArgs :
          retrier = Some([ wrapper        |-> wrapper,
                           max_attempts   |-> max_attempts,
                           base_delay     |-> base_delay,
                           max_delay      |-> max_delay,
                           attempts       |-> IntOrDefault(max_attempts,
                                                           retry_max_attempts),
                           delay          |-> FloatOrDefault(base_delay,
                                                             retry_base_delay),
                           max_d          |-> FloatOrDefault(max_delay, retry_max_delay),
                           attempt        |-> 0,
                           pc             |-> "try",
                           invocations    |-> <<>>,  \* what each invocation did
                           waits          |-> <<>>,  \* every sleep, in order
                           last_exception |-> None,
                           ending         |-> None ])

\* one pass of the loop body: func is invoked; a listed exception is kept and
\* is followed by the sleep or, on the last attempt, by the raise after the loop
Attempt ==
    /\ IsSome(retrier)
    /\ Get(retrier).pc = "try"
    /\ Get(retrier).attempt < Get(retrier).attempts
    /\ \E did \in FuncOutcomes :
          LET self == Get(retrier)
              k == Len(self.invocations) + 1
              invoked == [self EXCEPT !.invocations = Append(@, did)]
          IN  IF did = "returns"
              THEN retrier' = Some([invoked EXCEPT
                                       !.pc = "done",
                                       !.ending = Some([kind |-> "return", of |-> k])])
              ELSE IF did = "raises_unlisted"
              THEN retrier' = Some([invoked EXCEPT
                                       !.pc = "done",
                                       !.ending = Some([kind |-> "raise", of |-> k])])
              ELSE IF self.attempt < self.attempts - 1
              THEN retrier' = Some([invoked EXCEPT
                                       !.last_exception = Some(k),
                                       !.pc = "sleep"])
              ELSE retrier' = Some([invoked EXCEPT
                                       !.last_exception = Some(k),
                                       !.attempt = @ + 1,
                                       !.pc = "done",
                                       !.ending = Some([kind |-> "raise", of |-> k])])
    /\ EngineUnchanged
    /\ UNCHANGED <<calc, limiter, store>>

\* time.sleep(wait_time) / await asyncio.sleep(wait_time) returns
Sleep ==
    /\ IsSome(retrier)
    /\ Get(retrier).pc = "sleep"
    /\ LET self == Get(retrier)
       IN  retrier' = Some([self EXCEPT
                               !.waits = Append(@, wait_time(self.delay, self.attempt,
                                                             self.max_d)),
                               !.attempt = @ + 1,
                               !.pc = "try"])
    /\ EngineUnchanged
    /\ UNCHANGED <<calc, limiter, store>>

\* range(attempts) is empty: last_exception is None and the closing
\* return func(*args, **kwargs) runs outside any try
CallAfterLoop ==
    /\ IsSome(retrier)
    /\ Get(retrier).pc = "try"
    /\ Get(retrier).attempt = 0
    /\ Get(retrier).attempts <= 0
    /\ \E did \in FuncOutcomes :
          LET self == Get(retrier)
              k == Len(self.invocations) + 1
          IN  retrier' = Some([self EXCEPT
                                  !.invocations = Append(@, did),
                                  !.pc = "done",
                                  !.ending = Some([kind |-> IF did = "returns"
                                                            THEN "return" ELSE "raise",
                                                   of |-> k])])
    /\ EngineUnchanged
    /\ UNCHANGED <<calc, limiter, store>>

NextRetry == Attempt \/ Sleep \/ CallAfterLoop

SpecRetry == InitRetry /\ [][NextRetry]_vars

-----------------------------------------------------------------------------
(* One run_with_data call on companies whose two values lie close to a spread
   threshold: a flat index leaves the last round's post-money valuation as it
   is, a revenue of 20 and a discount of 35% or 15% give 13 or 17 per unit of
   the median multiple *)

SpreadPostMoneyValues == {113, 130, 133, 150, 355, 420}

SpreadComparableSources ==
    { [status |-> "ok", multiples |-> Multiples(<<9, 10, 11>>)],
      [status |-> "ok", multiples |-> Multiples(<<8, 9, 10>>)],
      [status |-> "ok", multiples |-> Multiples(<<20, 21, 22>>)],
      [status |-> "ok", multiples |-> Multiples(<<18, 19, 20>>)] }

InitSpread ==
    /\ impl \in Packages
    /\ config = DefaultValuationConfig
    /\ calc = None
    /\ limiter = None
    /\ retrier = None
    /\ store = None
    /\ request = None
    /\ response = None
    /\ clock = Date(2026, 12, 31)
    /\ \E v \in SpreadPostMoneyValues, st \in Stages :
          company_data = [ id |-> "c1",
                           last_round |-> Some([date |-> Date(2026, 12, 1),
                                                valuation_post |-> v]),
                           revenue_ttm |-> Some(20),
                           stage |-> st, adjustments |-> <<>> ]
    /\ indices = [status |-> "ok", points |->
                     << Point(Date(2025, 1, 1), 100), Point(Date(2026, 12, 31), 100) >>]
    /\ comparables \in SpreadComparableSources
    /\ ticks = 0
    /\ pc = "start"
    /\ cur = 0
    /\ methods = <<>>
    /\ results = <<>>
    /\ skipped = <<>>
    /\ sampled = NoSamples
    /\ outcome = [kind |-> "none"]
    /\ loader = "unloaded"
    /\ other = None
    /\ overlapped = FALSE

NextSpread == CreateAll \/ CheckPrerequisites \/ Execute \/ Reconcile

SpecSpread == InitSpread /\ [][NextSpread]_vars

-----------------------------------------------------------------------------
(* services/valuations.py: ValuationService.run_and_save_valuation against the
   portfolio_companies and valuations tables.  Each call works in a session
   of its own (get_db_context), whose inserts the other sessions see once it
   has committed; the page size of the look-up is scaled down *)

MaxCalls == 4
MaxInFlight == 2
ListLimit == 2

CompanyNames == {"Acme", "Beta", "Coda"}

\* select ... order_by(desc(created_at)).limit(limit): the rows with fewer
\* than `limit` newer rows
list_portfolio_companies(table, limit) ==
    SelectSeq(table, LAMBDA row :
        Cardinality({j \in 1..Len(table) : table[j].created_at > row.created_at}) < limit)

\* next((c for c in companies if c.name == name), None) over the page in its
\* order, most recent first
FirstNamed(companies, name) ==
    LET named == {j \in 1..Len(companies) : companies[j].name = name}
    IN  IF named = {} THEN None
        ELSE Some(companies[CHOOSE j \in named :
                      \A k \in named :
                          companies[k].created_at <= companies[j].created_at])

InFlight(self) ==
    Cardinality({i \in 1..Len(self.sessions) : self.sessions[i].pc # "done"})

InitSave ==
    /\ EngineAtRest
    /\ calc = None
    /\ limiter = None
    /\ retrier = None
    /\ store = Some([ portfolio_companies |-> <<>>,
                      valuations          |-> <<>>,
                      next_id             |-> 1,
                      sessions            |-> <<>> ])

\* run_and_save_valuation is called; engine.run_with_data runs before any
\* await and either raises or leaves a result to save
CallRunAndSave ==
    /\ IsSome(store)
    /\ Len(Get(store).sessions) < MaxCalls
    /\ InFlight(Get(store)) < MaxInFlight
    /\ \E name \in CompanyNames, engine_raises \in BOOLEAN :
          store' = Some([Get(store) EXCEPT !.sessions =
                       Append(@, [ name              |-> name,
                                   pc                |-> IF engine_raises THEN "done"
                                                         ELSE "list",
                                   saved             |-> FALSE,
                                   portfolio_company |-> None,
                                   created           |-> None,
                                   valuation         |-> None ])])
    /\ EngineUnchanged
    /\ UNCHANGED <<calc, limiter, retrier>>

\* companies = await crud.list_portfolio_companies(db, limit=100) and the
\* search of the page for the name
ListAndFind ==
    /\ IsSome(store)
    /\ \E i \in 1..Len(Get(store).sessions) :
          LET self == Get(store)
              session == self.sessions[i]
              companies == list_portfolio_companies(self.portfolio_companies, ListLimit)
              portfolio_company == FirstNamed(companies, session.name)
          IN  /\ session.pc = "list"
              /\ store' = Some([self EXCEPT
                                   !.sessions[i].portfolio_company =
                                       IF IsSome(portfolio_company)
                                       THEN Some(Get(portfolio_company).id) ELSE None,
                                   !.sessions[i].pc =
                                       IF IsSome(portfolio_company) THEN "save"
                                       ELSE "create"])
    /\ EngineUnchanged
    /\ UNCHANGED <<calc, limiter, retrier>>

\* portfolio_company = await crud.create_portfolio_company(...): the row is
\* flushed inside the session
CreatePortfolioCompany ==
    /\ IsSome(store)
    /\ \E i \in 1..Len(Get(store).sessions) :
          LET self == Get(store)
              session == self.sessions[i]
              company == [ id |-> self.next_id, name |-> session.name,
                           created_at |-> self.next_id ]
          IN  /\ session.pc = "create"
              /\ store' = Some([self EXCEPT
                                   !.next_id = @ + 1,
                                   !.sessions[i].created = Some(company),
                                   !.sessions[i].portfolio_company = Some(company.id),
                                   !.sessions[i].pc = "save"])
    /\ EngineUnchanged
    /\ UNCHANGED <<calc, limiter, retrier>>

\* saved_valuation = await crud.create_valuation(db, portfolio_company.id, ...)
CreateValuation ==
    /\ IsSome(store)
    /\ \E i \in 1..Len(Get(store).sessions) :
          LET self == Get(store)
              session == self.sessions[i]
          IN  /\ session.pc = "save"
              /\ store' = Some([self EXCEPT
                                   !.sessions[i].valuation =
                                       Some([ portfolio_company_id |->
                                                  Get(session.portfolio_company),
                                              company_name |-> session.name ]),
                                   !.sessions[i].pc = "commit"])
    /\ EngineUnchanged
    /\ UNCHANGED <<calc, limiter, retrier>>

\* the session leaves get_db_context: await session.commit()
Commit ==
    /\ IsSome(store)
    /\ \E i \in 1..Len(Get(store).sessions) :
          LET self == Get(store)
              session == self.sessions[i]
          IN  /\ session.pc = "commit"
              /\ store' = Some([self EXCEPT
                                   !.portfolio_companies =
                                       IF IsSome(session.created)
                                       THEN Append(@, Get(session.created)) ELSE @,
                                   !.valuations = Append(@, Get(session.valuation)),
                                   !.sessions[i].saved = TRUE,
                                   !.sessions[i].pc = "done"])
    /\ EngineUnchanged
    /\ UNCHANGED <<calc, limiter, retrier>>

NextSave ==
    CallRunAndSave \/ ListAndFind \/ CreatePortfolioCompany \/ CreateValuation \/ Commit

SpecSave == InitSave /\ [][NextSave]_vars

-----------------------------------------------------------------------------
(* Properties *)

Returned == pc = "done" /\ outcome.kind = "ValuationResult"

CountIn(s, m) == Cardinality({i \in 1..Len(s) : s[i].method = m})

\* C1: in every ValuationResult each registered method appears exactly once
\* across method_results and skipped_methods, under skipped_methods exactly
\* when its check_prerequisites returned a reason, and the two lists together
\* have as many entries as there are registered methods.
Thm_C1_ExactlyOneOutcomePerMethod ==
    Returned =>
        /\ \A k \in 1..Len(RegisteredMethods) :
              LET m == RegisteredMethods[k] IN
              /\ CountIn(outcome.method_results, m) + CountIn(outcome.skipped_methods, m) = 1
              /\ (CountIn(outcome.skipped_methods, m) = 1) <=> IsSome(methods[k].skip_reason)
              /\ (CountIn(outcome.method_results, m) = 1) <=> IsNone(methods[k].skip_reason)
        /\ Len(outcome.method_results) + Len(outcome.skipped_methods) = Len(RegisteredMethods)

Wit_C1_OneExecutedOneSkipped ==
    /\ Returned
    /\ Len(outcome.method_results) = 1
    /\ Len(outcome.skipped_methods) = 1

\* C2: run_with_data ends in NoValidMethodsError exactly when execute was
\* entered on no method; the error's skip_reasons then has the keys last_round
\* and comparables, each with the reason that method's check returned.
Thm_C2_NoValidMethodsIffNoneExecuted ==
    pc = "done" =>
        /\ (outcome.kind = "NoValidMethodsError")
              <=> (\A k \in 1..Len(methods) : methods[k].execute_calls = 0)
        /\ outcome.kind = "NoValidMethodsError" =>
              /\ DOMAIN outcome.skip_reasons = {"last_round", "comparables"}
              /\ \A k \in 1..Len(methods) :
                    /\ IsSome(methods[k].skip_reason)
                    /\ outcome.skip_reasons[methods[k].method_name]
                          = Get(methods[k].skip_reason)

Wit_C2_NoValidMethods ==
    /\ pc = "done"
    /\ outcome.kind = "NoValidMethodsError"
    /\ IsNone(company_data.last_round)
    /\ IsNone(company_data.revenue_ttm)

\* a method instance has produced its MethodSkipped or its MethodResult
Terminal(k) ==
    /\ k <= Len(methods)
    /\ \/ CountIn(skipped, methods[k].method_name) > 0
       \/ CountIn(results, methods[k].method_name) > 0

CallOrder ==
    \A k \in 1..Len(methods) :
        /\ methods[k].check_calls <= 1
        /\ methods[k].execute_calls <= 1
        /\ methods[k].execute_calls = 1 =>
              methods[k].check_calls = 1 /\ IsNone(methods[k].skip_reason)
        /\ CountIn(skipped, methods[k].method_name) > 0 => methods[k].execute_calls = 0

NoCallAfterTerminal ==
    \A k \in 1..Len(RegisteredMethods) :
        Terminal(k) =>
            /\ methods'[k].check_calls = methods[k].check_calls
            /\ methods'[k].execute_calls = methods[k].execute_calls

\* C3: check_prerequisites is entered once and before execute; execute is
\* entered at most once and only after check_prerequisites returned None; an
\* instance that has produced its MethodSkipped or MethodResult is not checked
\* or executed again.
Thm_C3_CheckThenExecuteOnce == [](CallOrder) /\ [][NoCallAfterTerminal]_vars

Wit_C3_BothTerminal ==
    /\ Terminal(1) /\ Terminal(2)
    /\ methods[1].execute_calls = 1
    /\ methods[2].execute_calls = 0

\* C4: the primary method is the executed result of best confidence, the one
\* registered first among those of equal best confidence, whatever the values;
\* primary_value is its value.
Thm_C4_PrimaryByConfidenceThenRegistration ==
    Returned =>
        \E i \in 1..Len(outcome.method_results) :
            LET rs == outcome.method_results IN
            /\ outcome.summary.primary_method = rs[i].method
            /\ outcome.summary.primary_value = rs[i].value
            /\ \A j \in 1..Len(rs) :
                  /\ confidence_order(rs[i].confidence) <= confidence_order(rs[j].confidence)
                  /\ rs[j].confidence = rs[i].confidence /\ j # i =>
                        \E a, b \in 1..Len(RegisteredMethods) :
                            /\ RegisteredMethods[a] = rs[i].method
                            /\ RegisteredMethods[b] = rs[j].method
                            /\ a < b

Wit_C4_TieWonByLowerValue ==
    /\ Returned
    /\ Len(outcome.method_results) = 2
    /\ outcome.method_results[1].confidence = outcome.method_results[2].confidence
    /\ outcome.method_results[1].value < outcome.method_results[2].value
    /\ outcome.summary.primary_method = LAST_ROUND

\* (max - min) / min <= t, for min > 0, in integers
SpreadAtMost(lo, hi, t) == (hi - lo) * t.d <= t.n * lo

IsLeast(v, rs) ==
    (\E i \in 1..Len(rs) : rs[i].value = v) /\ (\A i \in 1..Len(rs) : v <= rs[i].value)
IsGreatest(v, rs) ==
    (\E i \in 1..Len(rs) : rs[i].value = v) /\ (\A i \in 1..Len(rs) : v >= rs[i].value)

\* the rule table of the overall confidence, by band of the spread
OverallByBand(band, confidences) ==
    CASE band = "low"      -> IF HIGH \in confidences THEN HIGH ELSE MEDIUM
      [] band = "moderate" -> IF LOW \in confidences THEN LOW ELSE MEDIUM
      [] OTHER             -> LOW

\* C5: with one executed method the overall confidence is that method's; with
\* two executed methods of minimum value > 0 and spread s: s <= high threshold
\* gives HIGH if any is HIGH, else MEDIUM; high < s <= medium threshold gives
\* LOW if any is LOW, else MEDIUM; s > medium threshold gives LOW.  So HIGH
\* never comes with s > high threshold.
Thm_C5_OverallConfidenceTable ==
    Returned =>
        LET rs == outcome.method_results
            oc == outcome.summary.overall_confidence
            confs == {rs[i].confidence : i \in 1..Len(rs)}
        IN  /\ Len(rs) = 1 => oc = rs[1].confidence
            /\ Len(rs) = 2 =>
                  \A lo, hi \in {rs[1].value, rs[2].value} :
                      IsLeast(lo, rs) /\ IsGreatest(hi, rs) /\ lo > 0 =>
                          LET band ==
                                  IF SpreadAtMost(lo, hi, ValuationConfig.high_confidence_spread)
                                  THEN "low"
                                  ELSE IF SpreadAtMost(lo, hi, ValuationConfig.medium_confidence_spread)
                                  THEN "moderate"
                                  ELSE "high"
                          IN  /\ oc = OverallByBand(band, confs)
                              /\ band # "low" => oc # HIGH

Wit_C5_AllHighModerateSpread ==
    /\ Returned
    /\ Len(outcome.method_results) = 2
    /\ outcome.method_results[1].confidence = HIGH
    /\ outcome.method_results[2].confidence = HIGH
    /\ \E lo, hi \in {outcome.method_results[1].value, outcome.method_results[2].value} :
          /\ lo > 0 /\ lo <= hi
          /\ ~SpreadAtMost(lo, hi, ValuationConfig.high_confidence_spread)
          /\ SpreadAtMost(lo, hi, ValuationConfig.medium_confidence_spread)
    /\ outcome.summary.overall_confidence = MEDIUM

\* C6: with several executed methods the overall confidence is classified with
\* the spread of the cross-method comparison; so when the least executed value
\* is <= 0 the spread is 0 in both places and the overall confidence is HIGH
\* if any method is HIGH, otherwise MEDIUM.
Cex_C6_SameSpreadInBothPlaces ==
    Returned /\ Len(outcome.method_results) >= 2 =>
        LET rs == outcome.method_results
            confs == {rs[i].confidence : i \in 1..Len(rs)}
            analysis == Get(outcome.cross_method_analysis)
        IN  /\ outcome.summary.overall_confidence = OverallByBand(analysis.band, confs)
            /\ (\E i \in 1..Len(rs) : rs[i].value <= 0) =>
                  /\ RIsZero(analysis.spread_pct)
                  /\ outcome.summary.overall_confidence
                        = (IF HIGH \in confs THEN HIGH ELSE MEDIUM)

\* C7: with at least two executed methods cross_method_analysis is a non-empty
\* string, value_range_low / value_range_high are the least / greatest executed
\* value and value_range_low <= primary_value <= value_range_high; with one
\* executed method all three are absent.
Thm_C7_RangeAndAnalysis ==
    Returned =>
        LET rs == outcome.method_results
            su == outcome.summary
        IN  /\ Len(rs) >= 2 =>
                  /\ IsSome(outcome.cross_method_analysis)
                  /\ Len(Get(outcome.cross_method_analysis).text) > 0
                  /\ IsSome(su.value_range_low) /\ IsSome(su.value_range_high)
                  /\ IsLeast(Get(su.value_range_low), rs)
                  /\ IsGreatest(Get(su.value_range_high), rs)
                  /\ Get(su.value_range_low) <= su.primary_value
                  /\ su.primary_value <= Get(su.value_range_high)
            /\ Len(rs) = 1 =>
                  /\ IsNone(su.value_range_low)
                  /\ IsNone(su.value_range_high)
                  /\ IsNone(outcome.cross_method_analysis)

Wit_C7_TwoExecutedDistinctValues ==
    /\ Returned
    /\ Len(outcome.method_results) = 2
    /\ outcome.method_results[1].value > outcome.method_results[2].value
    /\ outcome.summary.value_range_low = Some(outcome.method_results[2].value)

\* ValuationMethod.run of the k-th registered method is over
RunOver(k) ==
    /\ k <= Len(methods)
    /\ methods[k].check_calls = 1
    /\ cur > k \/ pc \in {"reconcile", "done"}

\* the conditions under which Last Round is to be skipped, with today the
\* date its prerequisite check read
LastRoundSkipCondition ==
    \/ IsNone(company_data.last_round)
    \/ MonthsOld(Get(sampled.check), Get(company_data.last_round).date)
          > ValuationConfig.max_round_age_months
    \/ indices.status = "raise"
    \/ indices.points = <<>>

\* C8: Last Round yields a MethodSkipped exactly when the company has no last
\* round, or the calendar-month age exceeds max_round_age_months, or the
\* NASDAQ series is empty or cannot be loaded; in every other case, an age of
\* exactly max_round_age_months included, it yields a MethodResult.
Cex_C8_LastRoundSkippedIff ==
    RunOver(1) =>
        /\ (CountIn(skipped, LAST_ROUND) = 1) <=> LastRoundSkipCondition
        /\ ~LastRoundSkipCondition => CountIn(results, LAST_ROUND) = 1

\* the conditions under which Comparables is to be skipped
ComparablesSkipCondition ==
    \/ IsNone(company_data.revenue_ttm)
    \/ Get(company_data.revenue_ttm) <= 0
    \/ comparables.status = "raise"
    \/ Len(comparables.multiples) < ValuationConfig.min_comparables

\* C9: Comparables yields a MethodSkipped exactly when revenue_ttm is absent or
\* <= 0, or loading the comparable set raises, or the set has fewer than
\* min_comparables companies; in every other case, exactly min_comparables
\* companies included, it yields a MethodResult.
Thm_C9_ComparablesSkippedIff ==
    RunOver(2) =>
        /\ (CountIn(skipped, COMPARABLES) = 1) <=> ComparablesSkipCondition
        /\ ~ComparablesSkipCondition => CountIn(results, COMPARABLES) = 1
        /\ CountIn(skipped, COMPARABLES) + CountIn(results, COMPARABLES) = 1

Wit_C9_ExactlyMinComparablesExecutes ==
    /\ RunOver(2)
    /\ Len(comparables.multiples) = ValuationConfig.min_comparables
    /\ CountIn(results, COMPARABLES) = 1

\* p is the point of the series nearest to the target date, the earliest-dated
\* one when two are equally near
IsNearestPoint(p, points, target) ==
    /\ \E i \in 1..Len(points) : points[i] = p
    /\ \A j \in 1..Len(points) :
          LET dp == Abs(Ordinal(p.date) - Ordinal(target))
              dj == Abs(Ordinal(points[j].date) - Ordinal(target))
          IN  /\ dp <= dj
              /\ dp = dj => Ordinal(p.date) <= Ordinal(points[j].date)

\* v is q rounded to an integer, halves away from zero
IsHalfUpRounding(v, q) ==
    IF q.n >= 0
    THEN 2 * v * q.d - q.d <= 2 * q.n /\ 2 * q.n < 2 * v * q.d + q.d
    ELSE 2 * v * q.d - q.d < 2 * q.n /\ 2 * q.n <= 2 * v * q.d + q.d

\* C10: an executed Last Round result's value is the half-up rounding of
\* valuation_post * (1 + default_beta * (today_value - round_value) / round_value)
\* * (product of the adjustment factors), round_value and today_value being the
\* values of the index points nearest the round date and today (the
\* earliest-dated one of two equally near points).
Thm_C10_LastRoundValue ==
    \A i \in 1..Len(results) :
        results[i].method = LAST_ROUND =>
            \E pr, pt \in {indices.points[j] : j \in 1..Len(indices.points)} :
                /\ IsNearestPoint(pr, indices.points, Get(company_data.last_round).date)
                /\ IsNearestPoint(pt, indices.points, Get(sampled.execute))
                /\ pr.value # 0
                /\ IsHalfUpRounding(
                      results[i].value,
                      RMul(RMul(FromInt(Get(company_data.last_round).valuation_post),
                                RAdd(FromInt(1),
                                     RMul(ValuationConfig.default_beta,
                                          R(pt.value - pr.value, pr.value)))),
                           SeqProduct(company_data.adjustments)))

Wit_C10_EquidistantPoints ==
    /\ Len(results) >= 1
    /\ results[1].method = LAST_ROUND
    /\ \E j, k \in 1..Len(indices.points) :
          /\ j < k
          /\ indices.points[j].value # indices.points[k].value
          /\ Abs(DaysBetween(indices.points[j].date, Get(company_data.last_round).date))
                = Abs(DaysBetween(indices.points[k].date, Get(company_data.last_round).date))
          /\ \A l \in 1..Len(indices.points) :
                Abs(DaysBetween(indices.points[j].date, Get(company_data.last_round).date))
                   <= Abs(DaysBetween(indices.points[l].date, Get(company_data.last_round).date))
    /\ company_data.adjustments # <<>>

\* the private-company discount by stage, as a table
DiscountByStage ==
    [ seed |-> R(35, 100), series_a |-> R(30, 100), series_b |-> R(25, 100),
      series_c |-> R(20, 100), growth |-> R(15, 100) ]

\* revenue_ttm * selected_multiple * (1 - discount), before the adjustments
ComparablesPreAdjustment ==
    LET selected == IF ValuationConfig.multiple_percentile = 50
                    THEN median(comparables.multiples)
                    ELSE percentile(comparables.multiples, ValuationConfig.multiple_percentile)
    IN  RMul(RMul(FromInt(Get(company_data.revenue_ttm)), selected),
             RSub(FromInt(1), DiscountByStage[company_data.stage]))

\* C11: an executed Comparables result's value is the half-up rounding to 0
\* decimals of revenue_ttm * selected_multiple * (1 - discount) * (product of
\* the adjustment factors), selected_multiple being the median of the peers'
\* multiples at multiple_percentile = 50 and discount the stage's table entry.
Cex_C11_ComparablesValue ==
    \A i \in 1..Len(results) :
        results[i].method = COMPARABLES =>
            IsHalfUpRounding(results[i].value,
                             RMul(ComparablesPreAdjustment, SeqProduct(company_data.adjustments)))

\* valuation_post * (1 + default_beta * market_return), before the adjustments
LastRoundPreAdjustment ==
    LET last_round == Get(company_data.last_round)
        r == Closest(indices.points, last_round.date).value
        t == Closest(indices.points, Get(sampled.execute)).value
    IN  RMul(FromInt(last_round.valuation_post),
             RAdd(FromInt(1), RMul(ValuationConfig.default_beta, R(t - r, r))))

StepsNamed(trail, description) ==
    Cardinality({k \in 1..Len(trail) : trail[k].description = description})

\* C12: every executed method's value is its own pre-adjustment value times the
\* one combined factor (the product of the adjustment factors, 1 for an empty
\* list), rounded, and every executed method's audit trail has exactly one
\* 'Company-Specific Adjustments' step, also when the list is empty.
Cex_C12_AdjustmentsAppliedIdentically ==
    \A i \in 1..Len(results) :
        LET pre == IF results[i].method = LAST_ROUND
                   THEN LastRoundPreAdjustment
                   ELSE ComparablesPreAdjustment
        IN  /\ IsHalfUpRounding(results[i].value,
                                RMul(pre, SeqProduct(company_data.adjustments)))
            /\ StepsNamed(results[i].audit_trail, "Company-Specific Adjustments") = 1

\* the round age in calendar months that Last Round's execute computed
ExecutedRoundAge ==
    MonthsOld(Get(sampled.execute), Get(company_data.last_round).date)

\* C13: an executed Last Round result of round age a has confidence HIGH if
\* a <= 6, MEDIUM if 6 < a <= stale_round_threshold_months, LOW if
\* a > stale_round_threshold_months.
Thm_C13_LastRoundConfidenceByAge ==
    \A i \in 1..Len(results) :
        results[i].method = LAST_ROUND =>
            LET a == ExecutedRoundAge IN
            /\ a <= 6 => results[i].confidence = HIGH
            /\ 6 < a /\ a <= ValuationConfig.stale_round_threshold_months
                  => results[i].confidence = MEDIUM
            /\ a > ValuationConfig.stale_round_threshold_months
                  => results[i].confidence = LOW

Wit_C13_AgeAtStaleThresholdIsMedium ==
    /\ Len(results) >= 1
    /\ results[1].method = LAST_ROUND
    /\ ExecutedRoundAge = ValuationConfig.stale_round_threshold_months
    /\ results[1].confidence = MEDIUM

HasStalenessWarning(ws) == \E k \in 1..Len(ws) : ws[k].kind = "months old"

\* C14: a round of age a with stale_round_threshold_months < a <=
\* max_round_age_months (and a loaded, non-empty index series) is not skipped:
\* execute is entered; and an executed Last Round result carries the
\* 'months old' warning exactly when a > stale_round_threshold_months.
Thm_C14_StalenessDoesNotBlock ==
    /\ RunOver(1) /\ IsSome(company_data.last_round)
         /\ indices.status = "ok" /\ indices.points # <<>>
         /\ MonthsOld(Get(sampled.check), Get(company_data.last_round).date)
               > ValuationConfig.stale_round_threshold_months
         /\ MonthsOld(Get(sampled.check), Get(company_data.last_round).date)
               <= ValuationConfig.max_round_age_months
         => /\ CountIn(skipped, LAST_ROUND) = 0
            /\ methods[1].execute_calls = 1
    /\ \A i \in 1..Len(results) :
          results[i].method = LAST_ROUND =>
              (HasStalenessWarning(results[i].warnings)
                  <=> ExecutedRoundAge > ValuationConfig.stale_round_threshold_months)

Wit_C14_StaleRoundExecutedWithWarning ==
    /\ Len(results) >= 1
    /\ results[1].method = LAST_ROUND
    /\ ExecutedRoundAge = ValuationConfig.max_round_age_months
    /\ HasStalenessWarning(results[1].warnings)

\* the sum of the multiples (whole numbers here), or of their squares
RECURSIVE SumOver(_, _)
SumOver(ms, squared) ==
    IF ms = <<>> THEN 0
    ELSE (IF squared THEN Head(ms).n * Head(ms).n ELSE Head(ms).n)
            + SumOver(Tail(ms), squared)

\* population standard deviation / mean < t, for a mean # 0 and t > 0: with
\* n values of sum S and sum of squares Q, variance / mean^2 = (n*Q - S^2) / S^2
CvLess(ms, t) ==
    LET n == Len(ms)
        S == SumOver(ms, FALSE)
        Q == SumOver(ms, TRUE)
    IN  IF S > 0
        THEN (n * Q - S * S) * t.d * t.d < t.n * t.n * S * S
        ELSE TRUE    \* a negative mean makes the quotient <= 0 < t

ConfidenceByCv(ms) ==
    IF CvLess(ms, R(3, 10)) THEN HIGH
    ELSE IF CvLess(ms, R(5, 10)) THEN MEDIUM
    ELSE LOW

\* C15 as stated: an executed Comparables result has confidence HIGH if the
\* coefficient of variation of the peer multiples is < 0.3, MEDIUM if it is in
\* [0.3, 0.5), LOW if it is >= 0.5, and LOW when it is undefined (no
\* multiples, or a mean of zero).
Cex_C15_ConfidenceByCvAnyMean ==
    \A i \in 1..Len(results) :
        results[i].method = COMPARABLES =>
            LET ms == comparables.multiples IN
            results[i].confidence =
                (IF ms = <<>> \/ SumOver(ms, FALSE) = 0 THEN LOW ELSE ConfidenceByCv(ms))

\* C15: an executed Comparables result has confidence LOW when there are no
\* multiples or their mean is <= 0; otherwise HIGH if the coefficient of
\* variation is < 0.3, MEDIUM if it is in [0.3, 0.5), LOW if it is >= 0.5.
Thm_C15_ConfidenceByCvPositiveMean ==
    \A i \in 1..Len(results) :
        results[i].method = COMPARABLES =>
            LET ms == comparables.multiples IN
            results[i].confidence =
                (IF ms = <<>> \/ SumOver(ms, FALSE) <= 0 THEN LOW ELSE ConfidenceByCv(ms))

Wit_C15_NegativeMeanIsLow ==
    \E i \in 1..Len(results) :
        /\ results[i].method = COMPARABLES
        /\ SumOver(comparables.multiples, FALSE) < 0
        /\ results[i].confidence = LOW

\* the index load of Last Round's prerequisite check, reached and raising
IndexLoadRaisedInCheck ==
    /\ Len(methods) >= 1 /\ methods[1].check_calls = 1
    /\ IsSome(company_data.last_round)
    /\ MonthsOld(Get(sampled.check), Get(company_data.last_round).date)
          <= ValuationConfig.max_round_age_months
    /\ indices.status = "raise"

\* the comparables load of Comparables' prerequisite check, reached and raising
ComparablesLoadRaisedInCheck ==
    /\ Len(methods) >= 2 /\ methods[2].check_calls = 1
    /\ IsSome(company_data.revenue_ttm) /\ Get(company_data.revenue_ttm) > 0
    /\ comparables.status = "raise"

SkippedWith(m, reason) ==
    \E i \in 1..Len(skipped) : skipped[i] = [method |-> m, reason |-> reason]

\* C16: when the loader raises while a method's check_prerequisites loads the
\* index or the comparable set, that method ends as a MethodSkipped whose
\* reason reports the load failure and its execute is not entered; no
\* exception leaves run_with_data on that account, and the other registered
\* method is run as well.
Thm_C16_LoadFailureBecomesSkip ==
    /\ IndexLoadRaisedInCheck =>
          /\ SkippedWith(LAST_ROUND, "cannot_load_index")
          /\ methods[1].execute_calls = 0
          /\ outcome.kind # "exception"
          /\ pc \in {"reconcile", "done"} => methods[2].check_calls = 1
    /\ ComparablesLoadRaisedInCheck =>
          /\ SkippedWith(COMPARABLES, "cannot_load_comparables")
          /\ methods[2].execute_calls = 0
          /\ outcome.kind # "exception"
          /\ methods[1].check_calls = 1

Wit_C16_IndexLoadFailsComparablesRuns ==
    /\ pc = "done"
    /\ IndexLoadRaisedInCheck
    /\ CountIn(results, COMPARABLES) = 1
    /\ outcome.kind = "ValuationResult"

\* C17: whenever a method's check_prerequisites returned None its execute
\* returns a MethodResult without raising (Last Round never divides by a zero
\* index value), so run_with_data ends in a ValuationResult or in
\* NoValidMethodsError and in no other exception.
Cex_C17_ExecuteNeverRaises ==
    /\ \A k \in 1..Len(methods) :
          methods[k].execute_calls = 1 => CountIn(results, methods[k].method_name) = 1
    /\ pc = "done" => outcome.kind \in {"ValuationResult", "NoValidMethodsError"}

\* C19: in one run_with_data invocation the round age of Last Round's
\* prerequisite check, the round age of its staleness warning and confidence,
\* the date of today's index lookup and the result's valuation_date are all
\* taken from one and the same date, also when the clock moves on during the run.
Cex_C19_OneTodayPerRun ==
    Returned /\ CountIn(outcome.method_results, LAST_ROUND) = 1 =>
        /\ sampled.check = Some(outcome.valuation_date)
        /\ sampled.execute = Some(outcome.valuation_date)
        /\ MonthsOld(Get(sampled.execute), Get(company_data.last_round).date)
              = MonthsOld(Get(sampled.check), Get(company_data.last_round).date)
        /\ ExecutedRoundAge <= ValuationConfig.max_round_age_months

BothDone == pc = "done" /\ IsSome(other) /\ Get(other).pc = "done"

\* value and confidence of every method result, in order
ValueAndConfidence(o) ==
    [i \in 1..Len(o.method_results) |->
        [ method     |-> o.method_results[i].method,
          value      |-> o.method_results[i].value,
          confidence |-> o.method_results[i].confidence ]]

SameReturn(o1, o2) ==
    /\ o1.kind = o2.kind
    /\ o1.kind = "ValuationResult" =>
          /\ ValueAndConfidence(o1) = ValueAndConfidence(o2)
          /\ o1.skipped_methods = o2.skipped_methods
          /\ o1.summary.primary_method = o2.summary.primary_method
          /\ o1.summary.overall_confidence = o2.summary.overall_confidence
          /\ o1.config_snapshot = o2.config_snapshot

Cex_C20_InterleavedRunsAsAlone ==
    /\ pc = "done" => outcome = RunAlone(company_data)
    /\ IsSome(other) /\ Get(other).pc = "done" =>
          Get(other).outcome = RunAlone(Get(other).company_data)

\* C21: every MethodResult in a returned ValuationResult has a non-empty
\* audit_trail and the step numbers of the trail are 1, 2, ..., n in list order.
Thm_C21_AuditTrailNumbered ==
    Returned =>
        \A i \in 1..Len(outcome.method_results) :
            LET trail == outcome.method_results[i].audit_trail IN
            /\ Len(trail) >= 1
            /\ \A j \in 1..Len(trail) : trail[j].step_number = j

Wit_C21_BothTrailsRecorded ==
    /\ Returned
    /\ Len(outcome.method_results) = 2
    /\ \A i \in 1..2 : Len(outcome.method_results[i].audit_trail) >= 3

TunableNames ==
    { "max_round_age_months", "stale_round_threshold_months", "default_beta",
      "min_comparables", "multiple_percentile", "high_confidence_spread",
      "medium_confidence_spread" }

\* the configuration a config_snapshot describes, its decimal texts read back
SnapshotConfig(snap) ==
    [name \in DOMAIN snap |->
        IF name \in DecimalTunables THEN StrToDecimal(snap[name]) ELSE snap[name]]

\* the band of the spread between two values against two thresholds
BandOf(lo, hi, high_threshold, medium_threshold) ==
    IF SpreadAtMost(lo, hi, high_threshold) THEN "low"
    ELSE IF SpreadAtMost(lo, hi, medium_threshold) THEN "moderate"
    ELSE "high"

ValidationFailedOn(part) ==
    IsSome(response) /\ part \in Get(response).validation_errors

\* the engine was entered with the constructed CompanyData
ReachedEngine == IsSome(request) /\ methods # <<>>

\* C23: constructing a LastRound fails whenever
\* |valuation_post - (valuation_pre + amount_raised)| > 0.01 and succeeds when
\* the difference is <= 0.01 and the other field checks pass, the supplied
\* values being kept as they are; so every LastRound the engine is entered
\* with is within the tolerance.
Thm_C23_PostMoneyWithinTolerance ==
    IsSome(request) /\ pc # "request" /\ IsSome(Get(request).data.last_round) =>
        LET lr == Get(Get(request).data.last_round)
            diff == RAbs(RSub(lr.valuation_post, RAdd(lr.valuation_pre, lr.amount_raised)))
            other_checks == /\ RLt(FromInt(0), lr.valuation_pre)
                            /\ RLt(FromInt(0), lr.valuation_post)
                            /\ RLt(FromInt(0), lr.amount_raised)
                            /\ Ordinal(lr.date) <= Ordinal(clock)
        IN  /\ RLt(R(1, 100), diff) => ValidationFailedOn("last_round")
            /\ RLe(diff, R(1, 100)) /\ other_checks => ~ValidationFailedOn("last_round")
            /\ ReachedEngine =>
                  LET built == Get(company_data.last_round) IN
                  /\ built.date = lr.date
                  /\ FromInt(built.valuation_post) = lr.valuation_post
                  /\ built.valuation_pre = lr.valuation_pre
                  /\ built.amount_raised = lr.amount_raised
                  /\ RLe(RAbs(RSub(FromInt(built.valuation_post),
                                   RAdd(built.valuation_pre, built.amount_raised))),
                         R(1, 100))

Wit_C23_DifferenceOfExactlyTheTolerance ==
    /\ pc = "responded"
    /\ ReachedEngine
    /\ Get(response).status = 200
    /\ IsSome(company_data.last_round)
    /\ Get(company_data.last_round).valuation_pre = R(1199, 100)
    /\ Get(company_data.last_round).valuation_post = 16
    /\ Get(company_data.last_round).amount_raised = FromInt(4)

\* C24: constructing an Adjustment fails exactly when factor <= 0 or
\* factor > 10 (10 itself is accepted); so every factor the engine is entered
\* with lies in (0, 10] and the combined adjustment factor is > 0.
Thm_C24_FactorInRange ==
    IsSome(request) /\ pc # "request" =>
        LET adjustments == Get(request).data.adjustments
            bad == \E i \in 1..Len(adjustments) :
                       \/ RLe(adjustments[i], FromInt(0))
                       \/ RLt(FromInt(10), adjustments[i])
        IN  /\ ValidationFailedOn("adjustments") <=> bad
            /\ ReachedEngine =>
                  /\ company_data.adjustments = adjustments
                  /\ \A i \in 1..Len(company_data.adjustments) :
                        /\ RLt(FromInt(0), company_data.adjustments[i])
                        /\ RLe(company_data.adjustments[i], FromInt(10))
                  /\ RLt(FromInt(0), CombinedFactor(company_data.adjustments))

Wit_C24_FactorOfExactlyTen ==
    /\ pc = "responded"
    /\ ReachedEngine
    /\ Get(response).status = 200
    /\ company_data.adjustments = <<R(10, 1), R(1, 100)>>
    /\ outcome.kind = "ValuationResult"
    /\ Len(outcome.method_results) = 2

\* C25: company data that fails validation is rejected before any method's
\* check_prerequisites or execute is entered, and the caller gets a 422, on the
\* custom path and on the paths that load the company by id alike.
Cex_C25_InvalidDataIs422OnEveryPath ==
    IsSome(request) /\ pc # "request"
        /\ ~CompanyData_model_validate(Get(request).data, clock).ok =>
        /\ methods = <<>>
        /\ pc = "responded"
        /\ Get(response).status = 422

\* x stands at position k (1-based) of the values in ascending order
RankedAt(values, k, x) ==
    /\ \E i \in 1..Len(values) : values[i] = x
    /\ Cardinality({i \in 1..Len(values) : RLt(values[i], x)}) < k
    /\ k <= Cardinality({i \in 1..Len(values) : RLe(values[i], x)})

\* m is the middle element of the values (odd length) or the average of the
\* two middle elements (even length)
IsMedianOf(m, values) ==
    LET n == Len(values) IN
    IF n % 2 = 1
    THEN RankedAt(values, (n + 1) \div 2, m)
    ELSE \E i, j \in 1..n :
            /\ RankedAt(values, n \div 2, values[i])
            /\ RankedAt(values, n \div 2 + 1, values[j])
            /\ REq(RMul(FromInt(2), m), RAdd(values[i], values[j]))

\* C26: for every non-empty sequence of decimals percentile(values, 50) equals
\* median(values), which is the middle element for an odd length and the
\* average of the two middle elements for an even length.
Thm_C26_Percentile50IsMedian ==
    IsSome(calc) =>
        LET c == Get(calc) IN
        /\ IsSome(c.median) => IsMedianOf(Get(c.median), c.values)
        /\ c.p = 50 /\ IsSome(c.median) /\ IsSome(c.percentile) =>
              Get(c.percentile) = Get(c.median)

Wit_C26_EvenLengthDistinctMiddles ==
    /\ IsSome(calc)
    /\ Get(calc).p = 50
    /\ Get(calc).values = <<FromInt(5), FromInt(0), R(5, 2), FromInt(1)>>
    /\ Get(calc).median = Some(R(7, 4))
    /\ Get(calc).percentile = Some(R(7, 4))

\* how many rate-limited requests of the client were let through at times in
\* (t - window, t]
LetThroughInWindow(let_through, client_ip, t) ==
    Cardinality({i \in 1..Len(let_through) :
                    /\ let_through[i].client_ip = client_ip
                    /\ let_through[i].at > t - rate_limit_window_seconds
                    /\ let_through[i].at <= t})

\* C27: a non-health request of a client arriving at time t is let through
\* exactly when fewer than rate_limit_requests requests of that client were let
\* through at times in (t - rate_limit_window_seconds, t]; a refused request
\* gets 429 and is not recorded; so no client has more than
\* rate_limit_requests requests let through in any window, and /api/health
\* requests pass without being recorded.
Thm_C27_SlidingWindowLimit ==
    IsSome(limiter) =>
        LET self == Get(limiter) IN
        /\ IsSome(self.last) =>
              LET d == Get(self.last)
                  before == LetThroughInWindow(d.let_through_before, d.client_ip, d.at)
                  mine == self.requests[d.client_ip]
                  mine_before == d.requests_before[d.client_ip]
              IN  IF d.path = "/api/health"
                  THEN /\ d.status = 200
                       /\ self.requests = d.requests_before
                       /\ self.let_through = d.let_through_before
                  ELSE /\ d.status = 200 <=> before < rate_limit_requests
                       /\ d.status = 429 <=> before >= rate_limit_requests
                       /\ \A ip \in ClientIps \ {d.client_ip} :
                             self.requests[ip] = d.requests_before[ip]
                       /\ d.status = 429 =>
                             /\ self.let_through = d.let_through_before
                             /\ \A k \in 1..Len(mine) :
                                   \E j \in 1..Len(mine_before) : mine_before[j] = mine[k]
                             /\ Len(mine) <= Len(mine_before)
                       /\ d.status = 200 =>
                             /\ self.let_through
                                   = Append(d.let_through_before,
                                            [client_ip |-> d.client_ip, at |-> d.at])
                             /\ mine # <<>> /\ mine[Len(mine)] = d.at
        /\ \A client_ip \in ClientIps :
              /\ \A t \in 0..MaxTime + 1 :
                    LetThroughInWindow(self.let_through, client_ip, t) <= rate_limit_requests
              /\ \A k \in 1..Len(self.requests[client_ip]) :
                    \E i \in 1..Len(self.let_through) :
                        /\ self.let_through[i].client_ip = client_ip
                        /\ self.let_through[i].at = self.requests[client_ip][k]
              /\ Len(self.requests[client_ip])
                    <= Cardinality({i \in 1..Len(self.let_through) :
                                       self.let_through[i].client_ip = client_ip})

Wit_C27_AdmittedAgainAfterWindow ==
    /\ IsSome(limiter)
    /\ IsSome(Get(limiter).last)
    /\ LET self == Get(limiter)
           d == Get(self.last)
       IN  /\ d.path # "/api/health"
           /\ d.status = 200
           /\ Len(d.requests_before[d.client_ip]) = rate_limit_requests
           /\ d.requests_before[d.client_ip][1] = d.at - rate_limit_window_seconds
           /\ Cardinality({i \in 1..Len(self.let_through) :
                              self.let_through[i].client_ip = d.client_ip})
                 > rate_limit_requests

\* the value a decorator argument stands for: the argument, or the setting
\* when it is None
GivenOr(arg, default) == IF IsSome(arg) THEN Get(arg) ELSE default

AllListed(invocations) ==
    \A j \in 1..Len(invocations) : invocations[j] = "raises_listed"

RetryContract(self, max_attempts, base_delay, max_delay) ==
    LET made == Len(self.invocations)
    IN  /\ made <= max_attempts
        /\ \A k \in 1..made :
              /\ self.invocations[k] = "returns" =>
                    /\ k = made
                    /\ self.ending = Some([kind |-> "return", of |-> k])
              /\ self.invocations[k] = "raises_unlisted" =>
                    /\ k = made
                    /\ self.ending = Some([kind |-> "raise", of |-> k])
        /\ (made = max_attempts /\ AllListed(self.invocations)) =>
              self.ending = Some([kind |-> "raise", of |-> made])
        /\ (made < max_attempts /\ AllListed(self.invocations)) =>
              /\ self.ending = None
              /\ Len(self.waits) = IF self.pc = "sleep" THEN made - 1 ELSE made
        /\ IsSome(self.ending) => Len(self.waits) = made - 1
        /\ \A k \in 1..Len(self.waits) :
              self.waits[k] = wait_time(base_delay, k - 1, max_delay)

\* C28: a wrapped call invokes the function at most max_attempts times, returns
\* the first successful invocation's value, propagates an unlisted exception at
\* once, raises the last listed exception after max_attempts failures, and
\* after failed attempt k waits min(base_delay * 2^k, max_delay), never after
\* the final attempt -- with max_attempts, base_delay and max_delay the
\* decorator's arguments (the settings when None), for every max_attempts that
\* is None or at least 1
Cex_C28_RetryContractOfTheArguments ==
    (/\ IsSome(retrier)
     /\ Get(retrier).max_attempts = None \/ Get(Get(retrier).max_attempts) > 0) =>
        RetryContract(Get(retrier),
                      GivenOr(Get(retrier).max_attempts, retry_max_attempts),
                      GivenOr(Get(retrier).base_delay, retry_base_delay),
                      GivenOr(Get(retrier).max_delay, retry_max_delay))

\* the same contract for arguments that are None or positive
RetryContractOfPositiveArguments ==
    (/\ IsSome(retrier)
     /\ Get(retrier).max_attempts = None \/ Get(Get(retrier).max_attempts) > 0
     /\ Get(retrier).base_delay = None \/ Get(Get(retrier).base_delay).n > 0
     /\ Get(retrier).max_delay = None \/ Get(Get(retrier).max_delay).n > 0)
    => RetryContract(Get(retrier),
                     GivenOr(Get(retrier).max_attempts, retry_max_attempts),
                     GivenOr(Get(retrier).base_delay, retry_base_delay),
                     GivenOr(Get(retrier).max_delay, retry_max_delay))

\* a call given base_delay = 0 that slept for a positive time
ZeroBaseDelaySlept ==
    /\ IsSome(retrier)
    /\ Get(retrier).base_delay = Some(R(0, 1))
    /\ Len(Get(retrier).waits) > 0
    /\ Get(retrier).waits[1].n > 0

\* the band a spread_warning stands for
BandOfWarning(spread_warning) ==
    IF spread_warning = None THEN "low"
    ELSE IF spread_warning = Some("moderate uncertainty") THEN "moderate"
    ELSE "high"

\* the band the spread sentence of a selection_reason stands for
BandOfSentence(sentence) ==
    IF sentence = Some("good agreement") THEN "low"
    ELSE IF sentence = Some("moderate uncertainty") THEN "moderate"
    ELSE "high"

\* the overall confidence that belongs to a band
ConfidenceOfBand(band, confidences) ==
    IF band = "low" THEN (IF HIGH \in confidences THEN HIGH ELSE MEDIUM)
    ELSE IF band = "moderate"
         THEN (IF confidences = {HIGH} THEN MEDIUM
               ELSE IF LOW \in confidences THEN LOW
               ELSE MEDIUM)
    ELSE LOW

\* a result of two or more executed values whose minimum is > 0
SeveralPositiveValues ==
    /\ Returned
    /\ Len(outcome.method_results) >= 2
    /\ MinOf(ValuesOf(outcome.method_results)) > 0

\* C29: for executed values whose minimum is > 0 the band of
\* cross_method_analysis, the spread_warning, the spread sentence of
\* selection_reason and the branch of overall_confidence classify the spread
\* alike
Cex_C29_SpreadBandsAgree ==
    SeveralPositiveValues =>
        LET band == Get(outcome.cross_method_analysis).band
            summary == outcome.summary
        IN  /\ BandOfWarning(summary.method_comparison.spread_warning) = band
            /\ BandOfSentence(summary.selection_reason.spread) = band
            /\ summary.overall_confidence =
                  ConfidenceOfBand(band, ConfidencesOf(outcome.method_results))

\* the stored portfolio companies of a name
StoredNamed(name) ==
    {j \in 1..Len(Get(store).portfolio_companies) :
        Get(store).portfolio_companies[j].name = name}

\* C30: after any sequence or interleaving of run_and_save_valuation calls at
\* most one portfolio company is stored per company name, and every saved
\* valuation belongs to the stored company of its name
Cex_C30_OneCompanyPerName ==
    IsSome(store) =>
        /\ \A name \in CompanyNames : Cardinality(StoredNamed(name)) <= 1
        /\ \A v \in 1..Len(Get(store).valuations) :
              \E j \in StoredNamed(Get(store).valuations[v].company_name) :
                  Get(store).portfolio_companies[j].id =
                      Get(store).valuations[v].portfolio_company_id

\* two calls that were in flight together each created the company
BothInFlightCreated ==
    /\ IsSome(store)
    /\ Len(Get(store).portfolio_companies) = 2
    /\ Get(store).portfolio_companies[1].name = Get(store).portfolio_companies[2].name

\* a call that started after the company of its name was stored creates it again
CreatedAgainBeyondThePage ==
    /\ IsSome(store)
    /\ \E i \in 1..Len(Get(store).sessions) :
          LET session == Get(store).sessions[i]
          IN  /\ session.pc = "create"
              /\ InFlight(Get(store)) = 1
              /\ StoredNamed(session.name) # {}

====
